---- MODULE Spec2Model ----
(***************************************************************************)
(* A model of the mx-detection training harness:                           *)
(*   scripts/train_fcos.py       Pipeline A (center/regression detector)   *)
(*   scripts/train_retinanet.py  Pipeline B (anchor-based detector)        *)
(*   models/fpn/_resnext.py      the grouped residual backbone family      *)
(*   utils/torchglue.py          the layer-vocabulary shim                 *)
(* Each component has its own specification over the shared variables; a   *)
(* component that a specification does not exercise stays in its idle      *)
(* state.                                                                  *)
(***************************************************************************)
EXTENDS Integers, Sequences, FiniteSets, TLC

VARIABLES
    config,        \* train_net: the configuration the run was started with
    pc,            \* train_net: position of the training process
    num_update,    \* train_net: trainer.optimizer.num_update
    epoch,         \* train_net: the loop's `epoch`
    nbatch,        \* train_net: batches drawn from the loader in the current pass
    passes,        \* train_net: passes over the loader started so far
    saved,         \* train_net: files written so far, in order
    since,         \* train_net: files written since the last trainer.step
    last_step,     \* train_net: the last trainer.step and whether the metrics followed it
    start_update,  \* train_net: num_update when the loop was entered
    pad_bboxes,    \* RetinaNetTargetGenerator: the caller's box array, or NoBoxes
    pad_result,    \* RetinaNetTargetGenerator: what the call returned or raised
    net_call,      \* get_resnext: the arguments of the call, or NoCall
    net_result,    \* get_resnext: what the call returned or raised
    dcn_unit,      \* DeformabelConv2D: a unit constructed on its own, or NoLayer
    loss_call,     \* infer_shape: the kernel and the in_shape it was called with
    loss_result,   \* infer_shape: what the call returned or raised
    head_cfg,      \* train_retinanet main: the config both entry points are given
    train_head,    \* train_retinanet train_net: the head of the network it builds
    demo_head,     \* train_retinanet demo_net: the head of the network it builds
    shim_call,     \* torchglue nn.Conv2d: the arguments of the call
    shim_result,   \* torchglue nn.Conv2d: what the call returned or raised
    cli_script,    \* main: which script runs
    cli_argv,      \* main: the options on the command line
    cli_pc,        \* main: position of the process
    cli_args,      \* main: the namespace parse_args returned
    cli_ran,       \* main: the entry points started, in order
    cli_mobula,    \* main: mobula.config.NVCC and the kernels loaded so far
    det_call,      \* train_fcos inference_one_image: how many rois each level decodes
    det_result,    \* train_fcos inference_one_image: what the call returned
    rs_call,       \* inference_one_image: the script and the shape of the image read
    rs_result,     \* inference_one_image: fscale and the shapes it leads to
    img_resized,   \* train_retinanet inference_one_image: image_resized
    img_padded,    \* train_retinanet inference_one_image: image_padded
    frz_call,      \* train_net freezing pass: the script, FIXED_PARAMS and the parameters
    frz_result,    \* train_net freezing pass: params_to_train and the grad_req left behind
    it_config,     \* one training iteration: the pipeline, the devices and the batch's targets
    it_pc,         \* one training iteration: position of the process
    it_dev,        \* one training iteration: index of the micro-batch being worked on
    it_batch,      \* one training iteration: data batches finished so far
    it_trace,      \* one training iteration: the calls made so far, in order
    it_grads,      \* one training iteration: what the gradient buffers of each device hold
    it_losses,     \* one training iteration: the losses of each micro-batch of the batch
    it_num_pos,    \* one training iteration: Pipeline B's num_pos_list and the batch-wide count
    it_num_update, \* one training iteration: trainer.optimizer.num_update
    split_call,    \* SplitDataset: len(da), local_size and local_rank
    split_result,  \* SplitDataset: len(self) and the index each idx is read from
    gen_call,      \* target-generation adapters: the script and the caller's box array
    gen_heap,      \* target-generation adapters: the arrays alive, by reference
    gen_result     \* target-generation adapters: what each call handed on, call by call

train_vars ==
    <<config, pc, num_update, epoch, nbatch, passes, saved, since, last_step, start_update>>

pad_vars == <<pad_bboxes, pad_result>>

net_vars == <<net_call, net_result, dcn_unit>>

loss_vars == <<loss_call, loss_result>>

head_vars == <<head_cfg, train_head, demo_head>>

shim_vars == <<shim_call, shim_result>>

cli_vars == <<cli_script, cli_argv, cli_pc, cli_args, cli_ran, cli_mobula>>

det_vars == <<det_call, det_result>>

rs_vars == <<rs_call, rs_result>>

img_vars == <<img_resized, img_padded>>

frz_vars == <<frz_call, frz_result>>

it_vars == <<it_config, it_pc, it_dev, it_batch, it_trace, it_grads, it_losses, it_num_pos, it_num_update>>

split_vars == <<split_call, split_result>>

gen_vars == <<gen_call, gen_heap, gen_result>>

vars == <<train_vars, pad_vars, net_vars, loss_vars, head_vars, shim_vars, cli_vars, det_vars, rs_vars, img_vars, frz_vars, it_vars, split_vars, gen_vars>>

\* what each component leaves alone
not_train_vars == <<pad_vars, net_vars, loss_vars, head_vars, shim_vars, cli_vars, det_vars, rs_vars, img_vars, frz_vars, it_vars, split_vars, gen_vars>>
not_pad_vars == <<train_vars, net_vars, loss_vars, head_vars, shim_vars, cli_vars, det_vars, rs_vars, img_vars, frz_vars, it_vars, split_vars, gen_vars>>
not_net_vars == <<train_vars, pad_vars, loss_vars, head_vars, shim_vars, cli_vars, det_vars, rs_vars, img_vars, frz_vars, it_vars, split_vars, gen_vars>>
not_loss_vars == <<train_vars, pad_vars, net_vars, head_vars, shim_vars, cli_vars, det_vars, rs_vars, img_vars, frz_vars, it_vars, split_vars, gen_vars>>
not_head_vars == <<train_vars, pad_vars, net_vars, loss_vars, shim_vars, cli_vars, det_vars, rs_vars, img_vars, frz_vars, it_vars, split_vars, gen_vars>>
not_shim_vars == <<train_vars, pad_vars, net_vars, loss_vars, head_vars, cli_vars, det_vars, rs_vars, img_vars, frz_vars, it_vars, split_vars, gen_vars>>
not_cli_vars == <<train_vars, pad_vars, net_vars, loss_vars, head_vars, shim_vars, det_vars, rs_vars, img_vars, frz_vars, it_vars, split_vars, gen_vars>>
not_det_vars == <<train_vars, pad_vars, net_vars, loss_vars, head_vars, shim_vars, cli_vars, rs_vars, img_vars, frz_vars, it_vars, split_vars, gen_vars>>
not_rs_vars == <<train_vars, pad_vars, net_vars, loss_vars, head_vars, shim_vars, cli_vars, det_vars, img_vars, frz_vars, it_vars, split_vars, gen_vars>>
not_img_vars == <<train_vars, pad_vars, net_vars, loss_vars, head_vars, shim_vars, cli_vars, det_vars, rs_vars, frz_vars, it_vars, split_vars, gen_vars>>
not_frz_vars == <<train_vars, pad_vars, net_vars, loss_vars, head_vars, shim_vars, cli_vars, det_vars, rs_vars, img_vars, it_vars, split_vars, gen_vars>>
not_it_vars == <<train_vars, pad_vars, net_vars, loss_vars, head_vars, shim_vars, cli_vars, det_vars, rs_vars, img_vars, frz_vars, split_vars, gen_vars>>
not_split_vars == <<train_vars, pad_vars, net_vars, loss_vars, head_vars, shim_vars, cli_vars, det_vars, rs_vars, img_vars, frz_vars, it_vars, gen_vars>>
not_gen_vars == <<train_vars, pad_vars, net_vars, loss_vars, head_vars, shim_vars, cli_vars, det_vars, rs_vars, img_vars, frz_vars, it_vars, split_vars>>

\* no trainer.step has been made yet
NoStep == [update |-> -1, epoch |-> -1, last |-> FALSE, metrics |-> FALSE]

----------------------------------------------------------------------------
(* Bounds of the model and constants of the program.                       *)

\* `trainer.optimizer.num_update % 5000 == 0`
SaveInterval == 5000
\* loaders of 0..MaxLoaderLen batches per pass
MaxLoaderLen == 3
\* the schedule of a loader of 100 batches per pass
ScheduleLen == 100
\* a loader long enough for a pass to cross a multiple of SaveInterval
LongLoaderLen == 2500
\* config.TRAIN.end_epoch ranges over 1..MaxEndEpoch
MaxEndEpoch == 2
\* a resumed trainer starts ResumeGap updates before a multiple of SaveInterval
ResumeGap == 2
\* hvd.local_rank() ranges over 0..MaxLocalRank
MaxLocalRank == 1
\* a layers spec given to ResNext has entries 0..MaxStageBlocks
MaxStageBlocks == 2

LoaderLens == (0..MaxLoaderLen) \cup {ScheduleLen, LongLoaderLen}
EndEpochs == 1..MaxEndEpoch
ResumeUpdates == {0, SaveInterval - ResumeGap}

----------------------------------------------------------------------------
(* Training loops.                                                         *)

\* os.path.join(log_path, "{}-{}.params".format(epoch, num_update))
PeriodicPath(e, u) == <<e, u>>
\* os.path.join(log_path, "{}.params".format(epoch))
EpochPath(e) == <<e>>
\* net.collect_params().save(save_path)
ParamsFile(path) == [path |-> path, suffix |-> ""]
\* trainer.save_states(save_path + "-trainer.states")
StatesFile(path) == [path |-> path, suffix |-> "-trainer.states"]

\* a checkpoint that writes the optimizer state before the weights
CheckpointWrites_StatesFirst(path) == <<StatesFile(path), ParamsFile(path)>>

\* the two writes of a checkpoint, in the order the code makes them
CheckpointWrites(path) == <<ParamsFile(path), StatesFile(path)>>

\* a test that lets every process write
IsWriter_EveryProcess(c) == TRUE

\* `if not config.use_hvd or hvd.local_rank() == 0`; Pipeline B has one process
IsWriter(c) == c.pipeline = "B" \/ ~c.use_hvd \/ c.local_rank = 0

\* config.TRAIN.log_interval
LogInterval == 100

\* the save test made with the logging interval
IsSaveUpdate_LogInterval(u) == u % LogInterval = 0

\* `if trainer.optimizer.num_update % 5000 == 0`
IsSaveUpdate(u) == u % SaveInterval = 0

\* a file is written with the update counter at its current value
Write(f) ==
    /\ saved' = Append(saved, [file |-> f, update |-> num_update])
    /\ since' = since \cup {f}

Configs ==
    { [pipeline |-> "A", loader_len |-> l, begin_epoch |-> 0, end_epoch |-> e,
       use_hvd |-> h, local_rank |-> r] :
        l \in LoaderLens, e \in EndEpochs, h \in BOOLEAN, r \in 0..MaxLocalRank }
    \cup
    { [pipeline |-> "B", loader_len |-> l, begin_epoch |-> 0, end_epoch |-> e,
       use_hvd |-> FALSE, local_rank |-> 0] :
        l \in LoaderLens, e \in EndEpochs }

\* the state train_net is in when it reaches its loop: the trainer is built and,
\* with config.TRAIN.trainer_resume, its update counter is the saved one
TrainInit ==
    /\ config \in {c \in Configs : c.use_hvd \/ c.local_rank = 0}
    /\ num_update \in ResumeUpdates
    /\ start_update = num_update
    /\ pc = IF config.pipeline = "A" THEN "while" ELSE "for_epoch"
    /\ epoch = config.begin_epoch - 1
    /\ nbatch = 0
    /\ passes = 0
    /\ saved = <<>>
    /\ since = {}
    /\ last_step = NoStep

\* Pipeline A: `while trainer.optimizer.num_update <= end_epoch * len(train_loader)`
\* and `epoch = num_update // len(train_loader)`
A_While ==
    /\ config.pipeline = "A"
    /\ pc = "while"
    /\ IF num_update <= config.end_epoch * config.loader_len
       THEN IF config.loader_len = 0
            THEN /\ pc' = "ZeroDivisionError"
                 /\ UNCHANGED <<epoch, nbatch, passes>>
            ELSE /\ epoch' = num_update \div config.loader_len
                 /\ nbatch' = 0
                 /\ passes' = passes + 1
                 /\ pc' = "batch"
       ELSE /\ pc' = "done"
            /\ UNCHANGED <<epoch, nbatch, passes>>
    /\ UNCHANGED <<config, start_update, num_update, saved, since, last_step>>
    /\ UNCHANGED not_train_vars

\* the optimizer step of one loop iteration, and the test that follows it
StepAndTest ==
    /\ num_update' = num_update + 1
    /\ nbatch' = nbatch + 1
    /\ since' = {}
    /\ last_step' = [update |-> num_update + 1, epoch |-> epoch,
                     last |-> nbatch + 1 = config.loader_len,
                     metrics |-> IsWriter(config)]
    /\ pc' = IF IsWriter(config) /\ IsSaveUpdate(num_update + 1)
             THEN "save_params" ELSE "batch"
    /\ UNCHANGED <<config, start_update, epoch, passes, saved>>
    /\ UNCHANGED not_train_vars

\* Pipeline A: one iteration of `for data_batch in train_loader`
A_Batch ==
    /\ config.pipeline = "A"
    /\ pc = "batch"
    /\ nbatch < config.loader_len
    /\ StepAndTest

\* Pipeline A: the loader is exhausted
A_PassEnd ==
    /\ config.pipeline = "A"
    /\ pc = "batch"
    /\ nbatch = config.loader_len
    /\ pc' = IF IsWriter(config) THEN "epoch_params" ELSE "while"
    /\ UNCHANGED <<config, start_update, num_update, epoch, nbatch, passes, saved, since, last_step>>
    /\ UNCHANGED not_train_vars

A_SaveParams ==
    /\ config.pipeline = "A"
    /\ pc = "save_params"
    /\ Write(CheckpointWrites(PeriodicPath(epoch, num_update))[1])
    /\ pc' = "save_states"
    /\ UNCHANGED <<config, start_update, num_update, epoch, nbatch, passes, last_step>>
    /\ UNCHANGED not_train_vars

A_SaveStates ==
    /\ config.pipeline = "A"
    /\ pc = "save_states"
    /\ Write(CheckpointWrites(PeriodicPath(epoch, num_update))[2])
    /\ pc' = "batch"
    /\ UNCHANGED <<config, start_update, num_update, epoch, nbatch, passes, last_step>>
    /\ UNCHANGED not_train_vars

A_EpochParams ==
    /\ config.pipeline = "A"
    /\ pc = "epoch_params"
    /\ Write(CheckpointWrites(EpochPath(epoch))[1])
    /\ pc' = "epoch_states"
    /\ UNCHANGED <<config, start_update, num_update, epoch, nbatch, passes, last_step>>
    /\ UNCHANGED not_train_vars

A_EpochStates ==
    /\ config.pipeline = "A"
    /\ pc = "epoch_states"
    /\ Write(CheckpointWrites(EpochPath(epoch))[2])
    /\ pc' = "while"
    /\ UNCHANGED <<config, start_update, num_update, epoch, nbatch, passes, last_step>>
    /\ UNCHANGED not_train_vars

\* Pipeline B: `for epoch in range(begin_epoch, end_epoch)`
B_ForEpoch ==
    /\ config.pipeline = "B"
    /\ pc = "for_epoch"
    /\ IF epoch + 1 < config.end_epoch
       THEN /\ epoch' = epoch + 1
            /\ nbatch' = 0
            /\ passes' = passes + 1
            /\ pc' = "batch"
       ELSE /\ pc' = "done"
            /\ UNCHANGED <<epoch, nbatch, passes>>
    /\ UNCHANGED <<config, start_update, num_update, saved, since, last_step>>
    /\ UNCHANGED not_train_vars

\* Pipeline B: one iteration of `for nbatch, data_batch in enumerate(train_loader)`
B_Batch ==
    /\ config.pipeline = "B"
    /\ pc = "batch"
    /\ nbatch < config.loader_len
    /\ StepAndTest

\* Pipeline B: the loader is exhausted
B_PassEnd ==
    /\ config.pipeline = "B"
    /\ pc = "batch"
    /\ nbatch = config.loader_len
    /\ pc' = "epoch_params"
    /\ UNCHANGED <<config, start_update, num_update, epoch, nbatch, passes, saved, since, last_step>>
    /\ UNCHANGED not_train_vars

B_SaveParams ==
    /\ config.pipeline = "B"
    /\ pc = "save_params"
    /\ Write(CheckpointWrites(PeriodicPath(epoch, num_update))[1])
    /\ pc' = "save_states"
    /\ UNCHANGED <<config, start_update, num_update, epoch, nbatch, passes, last_step>>
    /\ UNCHANGED not_train_vars

B_SaveStates ==
    /\ config.pipeline = "B"
    /\ pc = "save_states"
    /\ Write(CheckpointWrites(PeriodicPath(epoch, num_update))[2])
    /\ pc' = "batch"
    /\ UNCHANGED <<config, start_update, num_update, epoch, nbatch, passes, last_step>>
    /\ UNCHANGED not_train_vars

B_EpochParams ==
    /\ config.pipeline = "B"
    /\ pc = "epoch_params"
    /\ Write(CheckpointWrites(EpochPath(epoch))[1])
    /\ pc' = "epoch_states"
    /\ UNCHANGED <<config, start_update, num_update, epoch, nbatch, passes, last_step>>
    /\ UNCHANGED not_train_vars

B_EpochStates ==
    /\ config.pipeline = "B"
    /\ pc = "epoch_states"
    /\ Write(CheckpointWrites(EpochPath(epoch))[2])
    /\ pc' = "for_epoch"
    /\ UNCHANGED <<config, start_update, num_update, epoch, nbatch, passes, last_step>>
    /\ UNCHANGED not_train_vars

TrainNext ==
    \/ A_While
    \/ A_Batch
    \/ A_PassEnd
    \/ A_SaveParams
    \/ A_SaveStates
    \/ A_EpochParams
    \/ A_EpochStates
    \/ B_ForEpoch
    \/ B_Batch
    \/ B_PassEnd
    \/ B_SaveParams
    \/ B_SaveStates
    \/ B_EpochParams
    \/ B_EpochStates

\* train_net has not been entered
TrainIdle ==
    /\ config = [pipeline |-> "idle"]
    /\ pc = "idle"
    /\ num_update = 0
    /\ start_update = 0
    /\ epoch = -1
    /\ nbatch = 0
    /\ passes = 0
    /\ saved = <<>>
    /\ since = {}
    /\ last_step = NoStep

----------------------------------------------------------------------------
(* Pipeline B's target-generation adapter.                                 *)

\* config.dataset.max_bbox_number
max_bbox_number == 200
\* the adapter is called with 0..max_bbox_number + PadOver boxes
PadOver == 2
\* the box arrays tried differ in their contents by a seed in 0..MaxBoxSeed
MaxBoxSeed == 1

NoBoxes == <<"no call">>
NoResult == [raised |-> "no call", outputs |-> <<>>]

\* a ground-truth row [xmin, ymin, xmax, ymax, class_id]
BoxRow(i, seed) == <<i + seed, 2 * i, i + seed + 10, 2 * i + 5, (i + 3 * seed) % 80>>
Boxes(n, seed) == [i \in 1..n |-> BoxRow(i, seed)]

\* np.ones(shape=(max_bbox_number, 5)) * -1
SentinelRows == [i \in 1..max_bbox_number |-> <<-1, -1, -1, -1, -1>>]

\* bboxes_padded[:len(bboxes), :5] = bboxes
Padded(bboxes) ==
    [i \in 1..max_bbox_number |-> IF i <= Len(bboxes) THEN bboxes[i] ELSE SentinelRows[i]]

\* the adapter with the capacity test made strict
RetinaNetTargetGenerator_call_Strict(image_transposed, bboxes) ==
    IF Len(bboxes) < max_bbox_number
    THEN [raised |-> "", outputs |-> <<image_transposed, Padded(bboxes)>>]
    ELSE [raised |-> "AssertionError", outputs |-> <<>>]

\* RetinaNetTargetGenerator.__call__
RetinaNetTargetGenerator_call(image_transposed, bboxes) ==
    IF Len(bboxes) <= max_bbox_number
    THEN [raised |-> "", outputs |-> <<image_transposed, Padded(bboxes)>>]
    ELSE [raised |-> "AssertionError", outputs |-> <<>>]

PadInit ==
    /\ pad_bboxes = NoBoxes
    /\ pad_result = NoResult

PadIdle == PadInit

\* the dataset calls the adapter on an image and its boxes
PadCall ==
    /\ pad_result.raised = "no call"
    /\ \E n \in 0..(max_bbox_number + PadOver), seed \in 0..MaxBoxSeed :
        /\ pad_bboxes' = Boxes(n, seed)
        /\ pad_result' = RetinaNetTargetGenerator_call("image", Boxes(n, seed))
    /\ UNCHANGED not_pad_vars

----------------------------------------------------------------------------
(* The backbone family (models/fpn/_resnext.py).                           *)

\* get_resnext is called with num_layers in 0..MaxDepth
MaxDepth == 102
\* DeformabelConv2D is constructed with kernel sizes 1..MaxKernel
MaxKernel == 3
\* strides and dilations 1..MaxStride, paddings 0..MaxStride - 1
MaxStride == 2

NoCall == [via |-> "None", num_layers |-> -1]
NoLayer == [op |-> "None"]
NoNet == [features |-> <<>>]

\* mxnet.gluon.nn.Conv2D (strides=1, padding=0, dilation=1, groups=1, use_bias=True
\* by default)
Conv2D(channels, kernel_size, strides, padding, dilation, groups, use_bias) ==
    [op |-> "Conv2D", channels |-> channels, kernel_size |-> kernel_size,
     strides |-> strides, padding |-> padding, dilation |-> dilation,
     groups |-> groups, use_bias |-> use_bias]

\* norm_layer(**norm_kwargs), with the gamma initializer it is given ("ones" is
\* the layer's default)
Norm(gamma_initializer) == [op |-> "norm", gamma_initializer |-> gamma_initializer]

Activation(act) == [op |-> "Activation", act_type |-> act]

\* the offset branch sized from the kernel, 2 * k * k * num_deformable_group
DeformabelConv2D_KernelSized(num_filter, kernel_size, strides, padding, dilation, use_bias, in_channels, num_groups) ==
    [op |-> "DeformabelConv2D",
     conv_offset |-> Conv2D(2 * kernel_size * kernel_size * 4, kernel_size, strides,
                            padding, dilation, 1, TRUE),
     weight_shape |-> <<num_filter, in_channels \div num_groups, kernel_size, kernel_size>>,
     num_filter |-> num_filter, kernel |-> <<kernel_size, kernel_size>>,
     stride |-> <<strides, strides>>, pad |-> <<padding, padding>>,
     dilate |-> <<dilation, dilation>>, no_bias |-> ~use_bias,
     num_group |-> num_groups, num_deformable_group |-> 4]

\* DeformabelConv2D.__init__ (and the arguments hybrid_forward passes on)
DeformabelConv2D(num_filter, kernel_size, strides, padding, dilation, use_bias, in_channels, num_groups) ==
    [op |-> "DeformabelConv2D",
     conv_offset |-> Conv2D(72, kernel_size, strides, padding, dilation, 1, TRUE),
     weight_shape |-> <<num_filter, in_channels \div num_groups, kernel_size, kernel_size>>,
     num_filter |-> num_filter, kernel |-> <<kernel_size, kernel_size>>,
     stride |-> <<strides, strides>>, pad |-> <<padding, padding>>,
     dilate |-> <<dilation, dilation>>, no_bias |-> ~use_bias,
     num_group |-> num_groups, num_deformable_group |-> 4]

\* _conv3x3
conv3x3_dcn(in_channels, group_width, kernel_size, strides, padding, groups, use_bias) ==
    DeformabelConv2D(group_width, kernel_size, strides, padding, 1, use_bias,
                     in_channels, groups)

\* the layers of a Block, given its D
BlockOf(D, channels, cardinality, stride, downsample, last_gamma, use_se, use_dcn) ==
    LET group_width == cardinality * D IN
    [channels |-> channels, D |-> D, group_width |-> group_width,
     body |->
        << Conv2D(group_width, 1, 1, 0, 1, 1, FALSE),
           Norm("ones"),
           Activation("relu"),
           IF use_dcn
           THEN conv3x3_dcn(group_width, group_width, 3, stride, 1, cardinality, FALSE)
           ELSE Conv2D(group_width, 3, stride, 1, 1, cardinality, FALSE),
           Norm("ones"),
           Activation("relu"),
           Conv2D(channels * 4, 1, 1, 0, 1, 1, FALSE),
           IF last_gamma THEN Norm("ones") ELSE Norm("zeros") >>,
     se |->
        IF use_se
        THEN << Conv2D(channels \div 4, 1, 1, 0, 1, 1, TRUE), Activation("relu"),
                Conv2D(channels * 4, 1, 1, 0, 1, 1, TRUE), Activation("sigmoid") >>
        ELSE <<>>,
     downsample |->
        IF downsample
        THEN << Conv2D(channels * 4, 1, stride, 0, 1, 1, FALSE), Norm("ones") >>
        ELSE <<>>]

\* Block.__init__ with bottleneck_width / 64 taken as an integer division
Block_IntDiv(channels, cardinality, bottleneck_width, stride, downsample, last_gamma, use_se, use_dcn) ==
    BlockOf(channels * (bottleneck_width \div 64),
            channels, cardinality, stride, downsample, last_gamma, use_se, use_dcn)

\* Block.__init__: D = int(math.floor(channels * (bottleneck_width / 64))). The
\* module divides truly (from __future__ import division) and n / 64 is exact in
\* binary floating point, so D is the floor of channels * bottleneck_width / 64.
Block(channels, cardinality, bottleneck_width, stride, downsample, last_gamma, use_se, use_dcn) ==
    BlockOf((channels * bottleneck_width) \div 64,
            channels, cardinality, stride, downsample, last_gamma, use_se, use_dcn)

\* _make_layer giving every block of the stage the stride and the downsample path
make_layer_AllFirst(channels, num_layers, stride, last_gamma, use_se, stage_index, use_dcn, cardinality, bottleneck_width) ==
    [prefix |-> stage_index,
     blocks |->
        [k \in 1..(IF num_layers > 1 THEN num_layers ELSE 1) |->
              Block(channels, cardinality, bottleneck_width, stride, TRUE,
                    last_gamma, use_se, use_dcn)]]

\* ResNext._make_layer: the first block, then range(num_layers - 1) more
make_layer(channels, num_layers, stride, last_gamma, use_se, stage_index, use_dcn, cardinality, bottleneck_width) ==
    [prefix |-> stage_index,
     blocks |->
        << Block(channels, cardinality, bottleneck_width, stride, TRUE,
                 last_gamma, use_se, use_dcn) >>
        \o [k \in 1..(IF num_layers > 1 THEN num_layers - 1 ELSE 0) |->
              Block(channels, cardinality, bottleneck_width, 1, FALSE,
                    last_gamma, use_se, use_dcn)]]

\* the `channels` of stage i (0-based): 64, doubled after every stage
RECURSIVE StageChannels(_)
StageChannels(i) == IF i = 0 THEN 64 ELSE 2 * StageChannels(i - 1)

\* ResNext.__init__: the stem, then one stage per entry of `layers`
ResNext(layers, cardinality, bottleneck_width, last_gamma, use_se) ==
    [cardinality |-> cardinality, bottleneck_width |-> bottleneck_width,
     features |->
        << Conv2D(64, 7, 2, 3, 1, 1, FALSE), Norm("ones"), Activation("relu"),
           [op |-> "MaxPool2D", pool_size |-> 3, strides |-> 2, padding |-> 1] >>
        \o [k \in 1..Len(layers) |->
              LET i == k - 1 IN
              make_layer(StageChannels(i), layers[k], IF i = 0 THEN 1 ELSE 2,
                         last_gamma, use_se, i + 1, i \in {1, 2, 3},
                         cardinality, bottleneck_width)]]

\* resnext_spec
resnext_spec == (50 :> <<3, 4, 6, 3>>) @@ (101 :> <<3, 4, 23, 3>>)

\* get_resnext without its assertion, an unknown depth built as depth 50
get_resnext_NoAssert(num_layers, cardinality, bottleneck_width, use_se, last_gamma) ==
    [raised |-> "",
     net |-> ResNext(IF num_layers \in DOMAIN resnext_spec
                     THEN resnext_spec[num_layers] ELSE resnext_spec[50],
                     cardinality, bottleneck_width, last_gamma, use_se)]

\* get_resnext (pretrained=False; last_gamma travels in **kwargs)
get_resnext(num_layers, cardinality, bottleneck_width, use_se, last_gamma) ==
    IF num_layers \notin DOMAIN resnext_spec
    THEN [raised |-> "AssertionError", net |-> NoNet]
    ELSE [raised |-> "",
          net |-> ResNext(resnext_spec[num_layers], cardinality, bottleneck_width,
                          last_gamma, use_se)]

\* the keyword arguments a caller may pass: `given` holds the keys present,
\* and the value of a key that is not given is not looked at
Kwargs ==
    {kw \in [given : SUBSET {"use_se"}, use_se : BOOLEAN, last_gamma : BOOLEAN] :
        "use_se" \in kw.given \/ ~kw.use_se}

\* the use_se keyword left as the caller gave it, set only when absent
SetUseSE_Default(kwargs, use_se) ==
    IF "use_se" \in kwargs.given THEN kwargs
    ELSE [kwargs EXCEPT !.given = @ \cup {"use_se"}, !.use_se = use_se]

\* kwargs['use_se'] = ...
SetUseSE(kwargs, use_se) ==
    [kwargs EXCEPT !.given = @ \cup {"use_se"}, !.use_se = use_se]

\* get_resnext(num_layers, cardinality, bottleneck_width, **kwargs): the
\* arguments get_resnext receives
GetResnextArgs(num_layers, cardinality, bottleneck_width, kwargs) ==
    [num_layers |-> num_layers, cardinality |-> cardinality,
     bottleneck_width |-> bottleneck_width,
     use_se |-> IF "use_se" \in kwargs.given THEN kwargs.use_se ELSE FALSE,
     last_gamma |-> kwargs.last_gamma]

resnext50_32x4d(kwargs) == GetResnextArgs(50, 32, 4, SetUseSE(kwargs, FALSE))

resnext101_32x4d(kwargs) == GetResnextArgs(101, 32, 4, SetUseSE(kwargs, FALSE))

resnext101_64x4d(kwargs) == GetResnextArgs(101, 64, 4, SetUseSE(kwargs, FALSE))

se_resnext50_32x4d(kwargs) == GetResnextArgs(50, 32, 4, SetUseSE(kwargs, TRUE))

se_resnext101_32x4d(kwargs) == GetResnextArgs(101, 32, 4, SetUseSE(kwargs, TRUE))

se_resnext101_64x4d(kwargs) == GetResnextArgs(101, 64, 4, SetUseSE(kwargs, TRUE))

\* the named constructors
Constructors ==
    [resnext50_32x4d |-> [kwargs \in Kwargs |-> resnext50_32x4d(kwargs)],
     resnext101_32x4d |-> [kwargs \in Kwargs |-> resnext101_32x4d(kwargs)],
     resnext101_64x4d |-> [kwargs \in Kwargs |-> resnext101_64x4d(kwargs)],
     se_resnext50_32x4d |-> [kwargs \in Kwargs |-> se_resnext50_32x4d(kwargs)],
     se_resnext101_32x4d |-> [kwargs \in Kwargs |-> se_resnext101_32x4d(kwargs)],
     se_resnext101_64x4d |-> [kwargs \in Kwargs |-> se_resnext101_64x4d(kwargs)]]

NetInit ==
    /\ net_call = NoCall
    /\ net_result = [raised |-> "no call", net |-> NoNet]
    /\ dcn_unit = NoLayer

NetIdle == NetInit

NothingBuilt == net_call = NoCall /\ dcn_unit = NoLayer

\* a caller asks for a backbone
GetResnext ==
    /\ NothingBuilt
    /\ \E num_layers \in 0..MaxDepth, cardinality \in {32, 64}, bottleneck_width \in {4, 8},
          use_se \in BOOLEAN, last_gamma \in BOOLEAN :
        /\ net_call' = [via |-> "get_resnext",
                        kwargs |-> [given |-> {"use_se"}, use_se |-> use_se,
                                    last_gamma |-> last_gamma],
                        num_layers |-> num_layers, cardinality |-> cardinality,
                        bottleneck_width |-> bottleneck_width, use_se |-> use_se,
                        last_gamma |-> last_gamma]
        /\ net_result' = get_resnext(num_layers, cardinality, bottleneck_width,
                                     use_se, last_gamma)
    /\ UNCHANGED dcn_unit
    /\ UNCHANGED not_net_vars

\* a caller asks for a backbone by the name of its constructor
NamedConstructor ==
    /\ NothingBuilt
    /\ \E name \in DOMAIN Constructors, kwargs \in Kwargs :
        LET args == Constructors[name][kwargs]
        IN  /\ net_call' = [via |-> name, kwargs |-> kwargs,
                            num_layers |-> args.num_layers,
                            cardinality |-> args.cardinality,
                            bottleneck_width |-> args.bottleneck_width,
                            use_se |-> args.use_se, last_gamma |-> args.last_gamma]
            /\ net_result' = get_resnext(args.num_layers, args.cardinality,
                                         args.bottleneck_width, args.use_se,
                                         args.last_gamma)
    /\ UNCHANGED dcn_unit
    /\ UNCHANGED not_net_vars

\* the `layers` a caller may give ResNext: 4 entries of 0..MaxStageBlocks, and
\* the two of resnext_spec
LayerSpecs ==
    [1..4 -> 0..MaxStageBlocks] \cup {resnext_spec[d] : d \in DOMAIN resnext_spec}

\* a caller constructs ResNext from a layers spec of its own
BuildResNext ==
    /\ NothingBuilt
    /\ \E layers \in LayerSpecs, last_gamma \in BOOLEAN, use_se \in BOOLEAN :
        /\ net_call' = [via |-> "ResNext", num_layers |-> -1, layers |-> layers,
                        cardinality |-> 32, bottleneck_width |-> 4,
                        use_se |-> use_se, last_gamma |-> last_gamma]
        /\ net_result' = [raised |-> "",
                          net |-> ResNext(layers, 32, 4, last_gamma, use_se)]
    /\ UNCHANGED dcn_unit
    /\ UNCHANGED not_net_vars

\* a caller constructs a deformable convolution unit
BuildDeformable ==
    /\ NothingBuilt
    /\ \E num_filter \in {1, 72, 128}, kernel_size \in 1..MaxKernel,
          strides \in 1..MaxStride, padding \in 0..(MaxStride - 1),
          dilation \in 1..MaxStride, use_bias \in BOOLEAN,
          in_channels \in {4, 128}, num_groups \in {1, 4} :
        dcn_unit' = DeformabelConv2D(num_filter, kernel_size, strides, padding,
                                     dilation, use_bias, in_channels, num_groups)
    /\ UNCHANGED <<net_call, net_result>>
    /\ UNCHANGED not_net_vars

----------------------------------------------------------------------------
(* Pipeline A's loss kernels: shape inference.                             *)

\* tensors of rank 0..MaxRank
MaxRank == 2
\* with dimensions 1..MaxDim
MaxDim == 3

Shapes == UNION {[1..r -> 1..MaxDim] : r \in 0..MaxRank}

\* L2Loss.infer_shape comparing the ranks of the two shapes only
L2Loss_infer_shape_RankOnly(in_shape) ==
    IF Len(in_shape[1]) = Len(in_shape[2])
    THEN [raised |-> "", printed |-> <<>>, returned |-> <<in_shape, <<in_shape[1]>>>>]
    ELSE [raised |-> "AssertionError", printed |-> <<>>, returned |-> <<>>]

\* BCELoss.infer_shape: the failed assertion is printed and raised again
BCELoss_infer_shape(in_shape) ==
    IF in_shape[1] = in_shape[2]
    THEN [raised |-> "", printed |-> <<>>, returned |-> <<in_shape, <<in_shape[1]>>>>]
    ELSE [raised |-> "AssertionError", printed |-> <<in_shape>>, returned |-> <<>>]

\* L2Loss.infer_shape
L2Loss_infer_shape(in_shape) ==
    IF in_shape[1] = in_shape[2]
    THEN [raised |-> "", printed |-> <<>>, returned |-> <<in_shape, <<in_shape[1]>>>>]
    ELSE [raised |-> "AssertionError", printed |-> <<>>, returned |-> <<>>]

LossInit ==
    /\ loss_call = [kernel |-> "None", in_shape |-> <<>>]
    /\ loss_result = [raised |-> "no call", printed |-> <<>>, returned |-> <<>>]

LossIdle == LossInit

\* the operator framework asks BCELoss for its output shape
BCEInferShape ==
    /\ loss_call.kernel = "None"
    /\ \E y \in Shapes, target \in Shapes :
        /\ loss_call' = [kernel |-> "BCELoss", in_shape |-> <<y, target>>]
        /\ loss_result' = BCELoss_infer_shape(<<y, target>>)
    /\ UNCHANGED not_loss_vars

\* the operator framework asks L2Loss for its output shape
L2InferShape ==
    /\ loss_call.kernel = "None"
    /\ \E y \in Shapes, target \in Shapes :
        /\ loss_call' = [kernel |-> "L2Loss", in_shape |-> <<y, target>>]
        /\ loss_result' = L2Loss_infer_shape(<<y, target>>)
    /\ UNCHANGED not_loss_vars

----------------------------------------------------------------------------
(* Pipeline B: the head that train_net and demo_net build.                 *)

\* args.num_classes ranges over 1..MaxNumClasses
MaxNumClasses == 81

\* config.retinanet.network.SCALES = [2**0, 2**(1/3), 2**(2/3)]
SCALES == <<"2**0", "2**(1/3)", "2**(2/3)">>
\* config.retinanet.network.RATIOS = [1/2, 1, 2]
RATIOS == <<"1/2", "1", "2">>

NoHead == [num_anchors |-> -1]

\* RetinaNet_Head.__init__: the output channels of the two final convolutions
RetinaNet_Head(num_classes, num_anchors) ==
    [num_anchors |-> num_anchors,
     feat_cls_channels |-> (num_classes - 1) * num_anchors,
     feat_reg_loc_channels |-> 4 * num_anchors]

\* train_net: num_anchors = len(SCALES) * len(RATIOS)
TrainNumAnchors(cfg) == Len(cfg.SCALES) * Len(cfg.RATIOS)

\* demo_net counting the anchors as len(SCALES) + len(RATIOS)
DemoNumAnchors_Sum(cfg) == Len(cfg.SCALES) + Len(cfg.RATIOS)

\* demo_net: num_anchors = len(SCALES) * len(RATIOS)
DemoNumAnchors(cfg) == Len(cfg.SCALES) * Len(cfg.RATIOS)

HeadInit ==
    /\ head_cfg \in {[NUM_CLASSES |-> n, SCALES |-> SCALES, RATIOS |-> RATIOS] :
                        n \in 1..MaxNumClasses}
    /\ train_head = NoHead
    /\ demo_head = NoHead

HeadIdle ==
    /\ head_cfg = [NUM_CLASSES |-> 0, SCALES |-> <<>>, RATIOS |-> <<>>]
    /\ train_head = NoHead
    /\ demo_head = NoHead

\* train_net builds RetinaNetFPNNet(backbone, NUM_CLASSES, num_anchors)
TrainNetBuildsHead ==
    /\ train_head = NoHead
    /\ train_head' = RetinaNet_Head(head_cfg.NUM_CLASSES, TrainNumAnchors(head_cfg))
    /\ UNCHANGED <<head_cfg, demo_head>>
    /\ UNCHANGED not_head_vars

\* demo_net builds RetinaNetFPNNet(backbone, NUM_CLASSES, num_anchors)
DemoNetBuildsHead ==
    /\ demo_head = NoHead
    /\ demo_head' = RetinaNet_Head(head_cfg.NUM_CLASSES, DemoNumAnchors(head_cfg))
    /\ UNCHANGED <<head_cfg, train_head>>
    /\ UNCHANGED not_head_vars

----------------------------------------------------------------------------
(* The layer-vocabulary shim (utils/torchglue.py).                         *)

\* nn.Conv2d passing its channel arguments on in each other's place
nn_Conv2d_Swapped(in_channels, out_channels, kernel_size, stride, padding, dilation, groups, bias, padding_mode) ==
    IF padding_mode = "zeros"
    THEN [raised |-> "",
          layer |-> [op |-> "Conv2D", channels |-> in_channels, in_channels |-> out_channels,
                     kernel_size |-> kernel_size, strides |-> stride, padding |-> padding,
                     dilation |-> dilation, groups |-> groups, use_bias |-> bias]]
    ELSE [raised |-> "AssertionError", layer |-> NoLayer]

\* nn.Conv2d
nn_Conv2d(in_channels, out_channels, kernel_size, stride, padding, dilation, groups, bias, padding_mode) ==
    IF padding_mode = "zeros"
    THEN [raised |-> "",
          layer |-> [op |-> "Conv2D", channels |-> out_channels, in_channels |-> in_channels,
                     kernel_size |-> kernel_size, strides |-> stride, padding |-> padding,
                     dilation |-> dilation, groups |-> groups, use_bias |-> bias]]
    ELSE [raised |-> "AssertionError", layer |-> NoLayer]

ShimInit ==
    /\ shim_call = [padding_mode |-> "no call"]
    /\ shim_result = [raised |-> "no call", layer |-> NoLayer]

ShimIdle == ShimInit

\* backbone code written against the foreign vocabulary asks for a convolution
ShimConv2d ==
    /\ shim_call.padding_mode = "no call"
    /\ \E in_channels \in {3, 64}, out_channels \in {64, 256}, kernel_size \in {1, MaxKernel},
          stride \in 1..MaxStride, padding \in 0..(MaxStride - 1), dilation \in 1..MaxStride,
          groups \in {1, 32}, bias \in BOOLEAN,
          padding_mode \in {"zeros", "reflect", "replicate", "circular"} :
        /\ shim_call' = [in_channels |-> in_channels, out_channels |-> out_channels,
                         kernel_size |-> kernel_size, stride |-> stride,
                         padding |-> padding, dilation |-> dilation, groups |-> groups,
                         bias |-> bias, padding_mode |-> padding_mode]
        /\ shim_result' = nn_Conv2d(in_channels, out_channels, kernel_size, stride,
                                    padding, dilation, groups, bias, padding_mode)
    /\ UNCHANGED not_shim_vars

----------------------------------------------------------------------------
(* The command line of the two training scripts.                           *)

Scripts == {"train_fcos", "train_retinanet"}

\* the options a command line of the model may hold
Options == {"--demo", "--demo-params", "--viz", "--gpus", "--nvcc"}

\* the options parse_args adds before it looks at the command line
BaseOptions(script) ==
    {"--dataset-type", "--num-classes", "--dataset-root", "--gpus", "--demo"}
    \cup (IF script = "train_retinanet" THEN {"--nvcc", "--im-per-gpu"} ELSE {})

\* the options added `if args_known.demo`, all of them optional
DemoOptions_NotRequired(demo) ==
    [added |-> IF demo THEN {"--demo-params", "--viz"} ELSE {}, required |-> {}]

\* the options added `if args_known.demo`
DemoOptions(demo) ==
    [added |-> IF demo THEN {"--demo-params", "--viz"} ELSE {},
     required |-> IF demo THEN {"--demo-params"} ELSE {}]

\* parse_args: parse_known_args skips what it does not know; parse_args then
\* exits on a missing required option or on an option the parser was not given
parse_args(script, argv) ==
    LET demo == "--demo" \in argv
        known == BaseOptions(script) \cup DemoOptions(demo).added
    IN  IF ~(DemoOptions(demo).required \subseteq argv) \/ ~(argv \subseteq known)
        THEN [exit |-> 2, demo |-> FALSE, demo_params |-> FALSE, viz |-> FALSE]
        ELSE [exit |-> 0, demo |-> demo, demo_params |-> "--demo-params" \in argv,
              viz |-> "--viz" \in argv]

\* mobula.config.NVCC as the library ships it
MobulaDefaultNVCC == "nvcc"
\* `--nvcc`: default="/usr/local/cuda-10.2/bin/nvcc"
NvccOptionDefault == "/usr/local/cuda-10.2/bin/nvcc"
\* train_fcos.py: setattr(mobula.config, "NVCC", "/usr/local/cuda-10.0/bin/nvcc")
FcosNVCC == "/usr/local/cuda-10.0/bin/nvcc"
\* the path a command line with --nvcc names
NvccGiven == "/opt/cuda/bin/nvcc"

\* args.nvcc
args_nvcc(argv) == IF "--nvcc" \in argv THEN NvccGiven ELSE NvccOptionDefault

\* mobula.op.load(name, ..): the kernel is loaded under the configuration of
\* that moment
mobula_op_load(mobula, name) ==
    [mobula EXCEPT !.loaded = Append(@, [op |-> name, NVCC |-> mobula.NVCC])]

\* load_mobula_ops(): four loads
load_mobula_ops(mobula) ==
    mobula_op_load(mobula_op_load(mobula_op_load(mobula_op_load(mobula,
        "RetinaNetTargetGenerator"), "RetinaNetRegression"), "BCELoss"), "FocalLoss")

\* setattr(mobula.config, "NVCC", path)
set_NVCC(mobula, path) == [mobula EXCEPT !.NVCC = path, !.overridden = TRUE]

\* `import mobula`
MobulaImported == [NVCC |-> MobulaDefaultNVCC, overridden |-> FALSE, loaded |-> <<>>]

\* the module-level code of the script has run: train_fcos.py sets NVCC and
\* loads its two kernels there, train_retinanet.py only imports mobula
ModuleLoaded(script) ==
    IF script = "train_fcos"
    THEN mobula_op_load(mobula_op_load(set_NVCC(MobulaImported, FcosNVCC),
            "FCOSTargetGenerator"), "FCOSRegression")
    ELSE MobulaImported

NoArgs == [exit |-> -1, demo |-> FALSE, demo_params |-> FALSE, viz |-> FALSE]

CliInit ==
    /\ cli_script \in Scripts
    /\ cli_argv \in SUBSET Options
    /\ cli_pc = "main"
    /\ cli_args = NoArgs
    /\ cli_ran = <<>>
    /\ cli_mobula = ModuleLoaded(cli_script)

CliIdle ==
    /\ cli_script = "None"
    /\ cli_argv = {}
    /\ cli_pc = "idle"
    /\ cli_args = NoArgs
    /\ cli_ran = <<>>
    /\ cli_mobula = MobulaImported

\* train_retinanet main: load_mobula_ops(), its first call after os.environ
MainLoadMobulaOps ==
    /\ cli_pc = "main"
    /\ cli_script = "train_retinanet"
    /\ cli_mobula.loaded = <<>>
    /\ cli_mobula' = load_mobula_ops(cli_mobula)
    /\ UNCHANGED <<cli_script, cli_argv, cli_pc, cli_args, cli_ran>>
    /\ UNCHANGED not_cli_vars

\* main: args = parse_args()
MainParseArgs ==
    /\ cli_pc = "main"
    /\ cli_mobula.loaded # <<>>
    /\ cli_args' = parse_args(cli_script, cli_argv)
    /\ cli_pc' = IF cli_args'.exit = 0 THEN "config" ELSE "error_exit"
    /\ UNCHANGED <<cli_script, cli_argv, cli_ran, cli_mobula>>
    /\ UNCHANGED not_cli_vars

\* train_retinanet main: setattr(mobula.config, "NVCC", args.nvcc)
MainSetNVCC ==
    /\ cli_pc = "config"
    /\ cli_script = "train_retinanet"
    /\ ~cli_mobula.overridden
    /\ cli_mobula' = set_NVCC(cli_mobula, args_nvcc(cli_argv))
    /\ UNCHANGED <<cli_script, cli_argv, cli_pc, cli_args, cli_ran>>
    /\ UNCHANGED not_cli_vars

\* main: the config is built, then `if args.demo: demo_net(config)`
MainDemoNet ==
    /\ cli_pc = "config"
    /\ cli_mobula.overridden
    /\ cli_args.demo
    /\ cli_ran' = Append(cli_ran, "demo_net")
    /\ cli_pc' = "demo_net"
    /\ UNCHANGED <<cli_script, cli_argv, cli_args, cli_mobula>>
    /\ UNCHANGED not_cli_vars

\* main: the config is built, then `else: ... train_net(config)`
MainTrainNet ==
    /\ cli_pc = "config"
    /\ cli_mobula.overridden
    /\ ~cli_args.demo
    /\ cli_ran' = Append(cli_ran, "train_net")
    /\ cli_pc' = "train_net"
    /\ UNCHANGED <<cli_script, cli_argv, cli_args, cli_mobula>>
    /\ UNCHANGED not_cli_vars

\* the entry point returns and main ends
MainReturn ==
    /\ cli_pc \in {"demo_net", "train_net"}
    /\ cli_pc' = "exit"
    /\ UNCHANGED <<cli_script, cli_argv, cli_args, cli_ran, cli_mobula>>
    /\ UNCHANGED not_cli_vars

----------------------------------------------------------------------------
(* Pipeline A inference: from the decoded rois to the returned detections. *)
(* A row stands for [x0, y0, x1, y1, score, class]: `level` and `idx` name  *)
(* the box, `score` is in thousandths, `overlapped` says whether box_nms    *)
(* finds a better box that overlaps this one by more than overlap_thresh.  *)

\* config.FCOS.network.FPN_SCALES
FPN_SCALES == <<8, 16, 32, 64, 128>>
\* `[:200]`
LevelTopK == 200
\* `cls_dets[:, 4] > 0.01`, in thousandths
ScoreThreshold == 10
\* decoded class ids are 0..NumForeground-1
NumForeground == 80
\* a level decodes up to LevelTopK + LevelOver rois
LevelOver == 1
MaxRoiSeed == 1

LevelCounts == {0, LevelTopK, LevelTopK + LevelOver}

\* the scores a row may have, best first; -1000 is the -1 of a suppressed row
ScoreValues == <<950, 400, 11, 10, 9, 0, -1000>>

MinusOneRow == [level |-> -1, idx |-> -1, score |-> -1000, cls |-> -1, overlapped |-> FALSE]

\* row i of a level: a dense image has only well-scored boxes that overlap no
\* better one, any other image has boxes of every kind
RoiRow(level, i, seed, dense) ==
    [level |-> level, idx |-> i,
     score |-> ScoreValues[1 + ((5 * i + seed + level) % (IF dense THEN 3 ELSE 6))],
     cls |-> (i + 3 * seed + level) % NumForeground,
     overlapped |-> ~dense /\ (i + seed) % 3 = 0]

\* mobula.op.FCOSRegression(stride)(prediction)[0]: the rois decoded for a level
FCOSRegression(level, n, seed, dense) == [i \in 1..n |-> RoiRow(level, i, seed, dense)]

RECURSIVE ByScoreFrom(_, _)
ByScoreFrom(rois, k) ==
    IF k > Len(ScoreValues) THEN <<>>
    ELSE SelectSeq(rois, LAMBDA r : r.score = ScoreValues[k]) \o ByScoreFrom(rois, k + 1)

\* rois[np.argsort(-1 * rois[:, 4])]
ArgsortByScore(rois) == ByScoreFrom(rois, 1)

\* rois[np.argsort(-1 * rois[:, 4])[:200]]
TopK(rois) ==
    LET sorted == ArgsortByScore(rois)
    IN  SubSeq(sorted, 1, IF Len(sorted) < LevelTopK THEN Len(sorted) ELSE LevelTopK)

RECURSIVE Concatenate(_, _)
\* np.concatenate(bboxes_pred_list, axis=0)
Concatenate(bboxes_pred_list, k) ==
    IF k > Len(bboxes_pred_list) THEN <<>>
    ELSE bboxes_pred_list[k] \o Concatenate(bboxes_pred_list, k + 1)

\* mx.nd.contrib.box_nms(..., force_suppress=True): as many rows as it was
\* given, best first, the suppressed and the invalid ones overwritten with -1
box_nms(bboxes_pred) ==
    ArgsortByScore([i \in 1..Len(bboxes_pred) |->
        IF bboxes_pred[i].overlapped \/ bboxes_pred[i].score <= 0
        THEN MinusOneRow ELSE bboxes_pred[i]])

\* the score filter letting a score equal to the threshold through
KeepScored_AtLeast(cls_dets) == SelectSeq(cls_dets, LAMBDA r : r.score >= ScoreThreshold)

\* cls_dets[np.where(cls_dets[:, 4] > 0.01)]
KeepScored(cls_dets) == SelectSeq(cls_dets, LAMBDA r : r.score > ScoreThreshold)

\* cls_dets[:, 5] += 1
ReOffset(cls_dets) == [i \in 1..Len(cls_dets) |-> [cls_dets[i] EXCEPT !.cls = @ + 1]]

\* inference_one_image of train_fcos.py, from the per-level loop on
fcos_inference_one_image(predictions) ==
    LET bboxes_pred_list == [l \in 1..Len(FPN_SCALES) |-> TopK(predictions[l])]
        bboxes_pred == Concatenate(bboxes_pred_list, 1)
    IN  IF Len(bboxes_pred) > 0
        THEN ReOffset(KeepScored(box_nms(bboxes_pred)))
        ELSE <<>>

NoDetCall == [counts |-> <<>>, seed |-> -1, dense |-> FALSE]
NoDetResult == [called |-> FALSE, returned |-> <<>>]

\* the rois the levels of the image decode to
Decoded(call) ==
    [l \in 1..Len(call.counts) |-> FCOSRegression(l, call.counts[l], call.seed, call.dense)]

DetInit ==
    /\ det_call \in [counts : [1..Len(FPN_SCALES) -> LevelCounts], seed : 0..MaxRoiSeed, dense : BOOLEAN]
    /\ det_result = NoDetResult

DetIdle ==
    /\ det_call = NoDetCall
    /\ det_result = NoDetResult

\* demo_net calls inference_one_image on an image
FcosInferenceOneImage ==
    /\ ~det_result.called
    /\ det_result' = [called |-> TRUE, returned |-> fcos_inference_one_image(Decoded(det_call))]
    /\ UNCHANGED det_call
    /\ UNCHANGED not_det_vars


----------------------------------------------------------------------------
(* Inference in both pipelines: the scale factor and the shapes it gives.  *)
(* fscale is kept as the exact fraction num / den.                         *)

\* config.TRAIN.image_short_size
image_short_size == 800
\* config.TRAIN.image_max_long_size
image_max_long_size == 1333
\* `np.ceil(x/32) * 32`
PadUnit == 32
\* image sides 1..MaxSmallSide, SideStep * (1..MaxSideSteps), and the sides
\* within SideNear of the two configured sizes
MaxSmallSide == 3
SideStep == 240
MaxSideSteps == 12
SideNear == 1

ImageSides ==
    (1..MaxSmallSide) \cup {SideStep * k : k \in 1..MaxSideSteps}
    \cup ((image_short_size - SideNear)..(image_short_size + SideNear))
    \cup ((image_max_long_size - SideNear)..(image_max_long_size + SideNear))

Smaller(a, b) == IF a < b THEN a ELSE b
Larger(a, b) == IF a > b THEN a ELSE b

\* fscale taken from the short side alone
FScale_ShortOnly(shape) ==
    [num |-> image_short_size, den |-> Smaller(shape[1], shape[2])]

\* fscale = min(image_short_size / min(image.shape[:2]),
\*              image_max_long_size / max(image.shape[:2]))
FScale(shape) ==
    LET short == [num |-> image_short_size, den |-> Smaller(shape[1], shape[2])]
        long == [num |-> image_max_long_size, den |-> Larger(shape[1], shape[2])]
    IN  IF short.num * long.den <= long.num * short.den THEN short ELSE long

\* cvRound(side * fscale): the nearest integer; a product that lies exactly
\* halfway is computed in floating point and may land on either side
Rounds(side, fscale) ==
    LET twice == 2 * side * fscale.num
        floor == (side * fscale.num) \div fscale.den
    IN  IF twice % fscale.den = 0 /\ (twice \div fscale.den) % 2 = 1
        THEN {floor, floor + 1}
        ELSE {(twice + fscale.den) \div (2 * fscale.den)}

\* cv2.resize(image, (0, 0), fx=fscale, fy=fscale): the shapes it may return,
\* none when a side rounds to 0 (cv2.error)
cv2_resize(shape, fx, fy) ==
    {<<h, w>> : h \in Rounds(shape[1], fy) \ {0}, w \in Rounds(shape[2], fx) \ {0}}

\* pad taking the next multiple of 32 also for a multiple of 32
pad_NextMultiple(x) == (x \div PadUnit + 1) * PadUnit

\* pad = lambda x: int(np.ceil(x/32) * 32)
pad(x) == ((x + PadUnit - 1) \div PadUnit) * PadUnit

NoRsCall == [script |-> "None", shape |-> <<0, 0>>]
NoRsResult ==
    [raised |-> "no call", fscale |-> [num |-> 0, den |-> 1], resized |-> <<0, 0>>, padded |-> <<0, 0>>]

RsInit ==
    /\ rs_call \in [script : Scripts, shape : ImageSides \X ImageSides]
    /\ rs_result = NoRsResult

RsIdle ==
    /\ rs_call = NoRsCall
    /\ rs_result = NoRsResult

\* what the first lines of inference_one_image leave behind for one resize
\* outcome; train_retinanet.py pads the resized image, train_fcos.py feeds the
\* resized image (its `image_padded`) to the network as it is
Resized(script, fscale, resized) ==
    [raised |-> "", fscale |-> fscale, resized |-> resized,
     padded |-> IF script = "train_retinanet" THEN <<pad(resized[1]), pad(resized[2])>> ELSE resized]

ResizeFailed(fscale) == [NoRsResult EXCEPT !.raised = "cv2.error", !.fscale = fscale]

\* the first lines of inference_one_image: the states they may leave behind
inference_one_image_shapes(script, shape) ==
    LET fscale == FScale(shape)
        shapes == cv2_resize(shape, fscale, fscale)
    IN  IF shapes = {}
        THEN {ResizeFailed(fscale)}
        ELSE {Resized(script, fscale, resized) : resized \in shapes}

\* train_fcos.py inference_one_image: the image is read, scaled and handed on
FcosInferenceResize ==
    /\ rs_call.script = "train_fcos"
    /\ rs_result.raised = "no call"
    /\ rs_result' \in inference_one_image_shapes("train_fcos", rs_call.shape)
    /\ UNCHANGED rs_call
    /\ UNCHANGED not_rs_vars

\* train_retinanet.py inference_one_image: the image is read, scaled, padded
\* and handed on
RetinanetInferenceResize ==
    /\ rs_call.script = "train_retinanet"
    /\ rs_result.raised = "no call"
    /\ rs_result' \in inference_one_image_shapes("train_retinanet", rs_call.shape)
    /\ UNCHANGED rs_call
    /\ UNCHANGED not_rs_vars

----------------------------------------------------------------------------
(* Pipeline B inference: the padded input, pixel by pixel.  An image is    *)
(* its shape and its pixels; the three colour channels of a pixel are      *)
(* treated alike and kept as one value.                                    *)

MaxPixelSeed == 3

\* resized images with sides around the multiples of PadUnit
PixelSides == {1, PadUnit - 1, PadUnit, PadUnit + 1, 2 * PadUnit}

Positions(shape) == (1..shape[1]) \X (1..shape[2])

NoImage == [shape |-> <<0, 0>>, px |-> <<>>]

\* the image cv2.resize returned
ResizedImage(shape, seed) ==
    [shape |-> shape, px |-> [p \in Positions(shape) |-> (7 * p[1] + 3 * p[2] + seed) % 256]]

\* np.zeros(shape=(..., ..., 3))
np_zeros(shape) == [shape |-> shape, px |-> [p \in Positions(shape) |-> 0]]

\* image_padded[:image_resized.shape[0], :image_resized.shape[1]] = image_resized
AssignTopLeft(image_padded, image_resized) ==
    [image_padded EXCEPT !.px = [p \in Positions(image_padded.shape) |->
        IF p[1] <= image_resized.shape[1] /\ p[2] <= image_resized.shape[2]
        THEN image_resized.px[p] ELSE @[p]]]

\* inference_one_image of train_retinanet.py: image_padded from image_resized
PadImage(image_resized) ==
    AssignTopLeft(np_zeros(<<pad(image_resized.shape[1]), pad(image_resized.shape[2])>>), image_resized)

ImgInit ==
    /\ \E shape \in PixelSides \X PixelSides, seed \in 0..MaxPixelSeed :
        img_resized = ResizedImage(shape, seed)
    /\ img_padded = NoImage

ImgIdle ==
    /\ img_resized = NoImage
    /\ img_padded = NoImage

\* inference_one_image pads the resized image
RetinanetInferencePad ==
    /\ img_padded = NoImage
    /\ img_padded' = PadImage(img_resized)
    /\ UNCHANGED img_resized
    /\ UNCHANGED not_img_vars

----------------------------------------------------------------------------
(* The freezing pass of train_net in both scripts.  A parameter name and a  *)
(* FIXED_PARAMS entry are sequences of name parts (the `_` between parts is *)
(* left out); ".*" in an entry of Pipeline B is the regular expression.     *)

\* FIXED_PARAMS holds up to MaxFixed entries
MaxFixed == 2

\* net.collect_params().keys()
ParamKeys ==
    << <<"resnetv1b", "conv0", "weight">>,
       <<"resnetv1b", "layers1", "conv0", "weight">>,
       <<"resnetv1b", "layers1", "batchnorm0", "running", "mean">>,
       <<"resnetv1b", "layers2", "group", "norm0", "gamma">>,
       <<"resnetv1b", "layers2", "batchnorm0", "gamma">>,
       <<"head", "conv0", "weight">> >>

ParamNames == {ParamKeys[k] : k \in DOMAIN ParamKeys}

\* the entries config.network.FIXED_PARAMS may hold in train_fcos.py
FcosFixedEntries ==
    { <<>>, <<"layers1">>, <<"conv0">>, <<"resnetv1b", "conv0">>, <<"layers2">>, <<"stem">> }

\* the entries config.network.FIXED_PARAMS may hold in train_retinanet.py
RetinanetFixedEntries ==
    { <<".*", "layers1", ".*">>, <<".*", "resnetv1b", "conv0", ".*">>, <<"resnetv1b", ".*">>,
      <<"conv0">>, <<".*", "running", ".*">>, <<".*", "gamma">> }

\* the lists of up to MaxFixed entries, and None
FixedParams(entries) ==
    {[is_none |-> TRUE, list |-> <<>>]}
    \cup {[is_none |-> FALSE, list |-> l] : l \in UNION {[1..n -> entries] : n \in 0..MaxFixed}}

\* `f in str(p)`
IsInfix(f, p) == \E i \in 0..(Len(p) - Len(f)) : SubSeq(p, i + 1, i + Len(f)) = f

RECURSIVE MatchFrom(_, _, _, _)
MatchFrom(f, i, p, j) ==
    IF i > Len(f) THEN TRUE
    ELSE IF f[i] = ".*" THEN \E k \in j..(Len(p) + 1) : MatchFrom(f, i + 1, p, k)
    ELSE j <= Len(p) /\ p[j] = f[i] /\ MatchFrom(f, i + 1, p, j + 1)

\* `re.match(f, str(p)) is not None`: f matches a prefix of p
re_match(f, p) == MatchFrom(f, 1, p, 1)

\* the freezing test of train_fcos.py without its exception for "group"
FcosIgnores_NoGroupException(f, p) == IsInfix(f, p)

\* `f in str(p) and "group" not in str(p)`
FcosIgnores(f, p) == IsInfix(f, p) /\ ~IsInfix(<<"group">>, p)

\* the already-null test taken without its exception for "running"
AlreadyNull_NoRunningException(p, grad_req) == grad_req = "null"

\* `params_all[p].grad_req == "null" and "running" not in p`
AlreadyNull(p, grad_req) == grad_req = "null" /\ ~IsInfix(<<"running">>, p)

\* what the loop body has decided about one parameter so far
Undecided(p, grad_req) == [p |-> p, ignore |-> FALSE, grad_req |-> grad_req, log |-> <<>>]

Ignored(st, why, f) ==
    [st EXCEPT !.ignore = TRUE, !.log = Append(@, [p |-> st.p, why |-> why, f |-> f])]

RECURSIVE fcos_for_f(_, _, _)
\* train_fcos.py: `for f in params_fixed_prefix`
fcos_for_f(st, list, k) ==
    IF k > Len(list) THEN st
    ELSE fcos_for_f(IF FcosIgnores(list[k], st.p)
                    THEN [Ignored(st, "fixed", list[k]) EXCEPT !.grad_req = "null"]
                    ELSE st,
                    list, k + 1)

\* train_fcos.py: the body of `for p in params_all.keys()`
fcos_freeze_param(p, grad_req, fixed) ==
    LET st == IF fixed.is_none THEN Undecided(p, grad_req)
              ELSE fcos_for_f(Undecided(p, grad_req), fixed.list, 1)
    IN  st @@ [trained |-> ~st.ignore]

RECURSIVE retinanet_for_f(_, _, _)
\* train_retinanet.py: `for f in params_fixed_prefix`
retinanet_for_f(st, list, k) ==
    IF k > Len(list) THEN st
    ELSE retinanet_for_f(IF re_match(list[k], st.p)
                         THEN [Ignored(st, "matches", list[k]) EXCEPT !.grad_req = "null"]
                         ELSE st,
                         list, k + 1)

\* the loop body of train_retinanet.py without its last test of grad_req
retinanet_freeze_param_NoLastTest(p, grad_req, fixed) ==
    LET st0 == Undecided(p, grad_req)
        st1 == IF AlreadyNull(p, grad_req) THEN Ignored(st0, "grad_req_null", <<>>) ELSE st0
        st2 == IF fixed.is_none THEN st1 ELSE retinanet_for_f(st1, fixed.list, 1)
    IN  st2 @@ [trained |-> ~st2.ignore]

\* train_retinanet.py: the body of `for p in params_all.keys()`
retinanet_freeze_param(p, grad_req, fixed) ==
    LET st0 == Undecided(p, grad_req)
        st1 == IF AlreadyNull(p, grad_req) THEN Ignored(st0, "grad_req_null", <<>>) ELSE st0
        st2 == IF fixed.is_none THEN st1 ELSE retinanet_for_f(st1, fixed.list, 1)
    IN  st2 @@ [trained |-> ~st2.ignore /\ st2.grad_req # "null"]

\* the decision of the script's loop body about one parameter
freeze_param(script, p, grad_req, fixed) ==
    IF script = "train_fcos" THEN fcos_freeze_param(p, grad_req, fixed)
    ELSE retinanet_freeze_param(p, grad_req, fixed)

RECURSIVE LogFrom(_, _)
\* the log lines of the pass, in the order of params_all.keys()
LogFrom(decided, k) ==
    IF k > Len(ParamKeys) THEN <<>>
    ELSE decided[ParamKeys[k]].log \o LogFrom(decided, k + 1)

\* the freezing pass: `for p in params_all.keys()`
freezing_pass(script, params_all, fixed) ==
    LET decided == [p \in ParamNames |-> freeze_param(script, p, params_all[p], fixed)]
    IN  [done |-> TRUE,
         params_to_train |-> {p \in ParamNames : decided[p].trained},
         grad_req |-> [p \in ParamNames |-> decided[p].grad_req],
         ignore |-> {p \in ParamNames : decided[p].ignore},
         log |-> LogFrom(decided, 1)]

NoFrzCall == [script |-> "None", FIXED_PARAMS |-> [is_none |-> TRUE, list |-> <<>>], params_all |-> <<>>]
NoFrzResult == [done |-> FALSE, params_to_train |-> {}, grad_req |-> <<>>, ignore |-> {}, log |-> <<>>]

FrzInit ==
    /\ \E script \in Scripts, params_all \in [ParamNames -> {"write", "null"}] :
        \E fixed \in FixedParams(IF script = "train_fcos" THEN FcosFixedEntries
                                 ELSE RetinanetFixedEntries) :
            frz_call = [script |-> script, FIXED_PARAMS |-> fixed, params_all |-> params_all]
    /\ frz_result = NoFrzResult

FrzIdle ==
    /\ frz_call = NoFrzCall
    /\ frz_result = NoFrzResult

\* train_fcos.py train_net reaches its freezing pass
FcosFreeze ==
    /\ frz_call.script = "train_fcos"
    /\ ~frz_result.done
    /\ frz_result' = freezing_pass("train_fcos", frz_call.params_all, frz_call.FIXED_PARAMS)
    /\ UNCHANGED frz_call
    /\ UNCHANGED not_frz_vars

\* train_retinanet.py train_net reaches its freezing pass
RetinanetFreeze ==
    /\ frz_call.script = "train_retinanet"
    /\ ~frz_result.done
    /\ frz_result' = freezing_pass("train_retinanet", frz_call.params_all, frz_call.FIXED_PARAMS)
    /\ UNCHANGED frz_call
    /\ UNCHANGED not_frz_vars

----------------------------------------------------------------------------
(* One training iteration of train_net, call by call.  A loss is kept as    *)
(* the exact fraction num / den; a division by zero leaves den = 0, the     *)
(* inf or nan the array library returns for it.  Centerness targets are     *)
(* multiples of 1 / CenterUnit.  The targets and the raw (unnormalised)     *)
(* loss values of a micro-batch are generated from a seed.                  *)

\* len(ctx_list) ranges over 1..MaxDevices
MaxDevices == 2
\* a run of the iteration-level model draws 1..MaxBatches data batches
MaxBatches == 2
\* spatial locations of Pipeline A's target tensor
NumLocations == 2
\* centerness targets are 0, 1/CenterUnit, .., 1
CenterUnit == 2
\* seeds of the targets of a batch: 0..MaxTargetSeed
MaxTargetSeed == 3
\* the loc-mask sum of one level is 0..MaxMaskSum
MaxMaskSum == 8
\* the four box coordinates an anchor's loc mask covers: `x[2].sum() / 4`
MaskPerAnchor == 4
\* config.retinanet.network.FPN_STRIDES
FPN_STRIDES == <<8, 16, 32, 64, 128>>

Frac(n, d) == [num |-> n, den |-> d]
FracAdd(a, b) == Frac(a.num * b.den + b.num * a.den, a.den * b.den)
\* a / b for two fractions; b = 0 leaves the denominator 0
FracDiv(a, b) == Frac(a.num * b.den, a.den * b.num)
FracEq(a, b) == a.num * b.den = b.num * a.den

RECURSIVE SumSeq(_)
SumSeq(s) == IF s = <<>> THEN 0 ELSE s[1] + SumSeq(Tail(s))

\* x.sum() of an array of fractions
RECURSIVE FracSum(_)
FracSum(s) == IF s = <<>> THEN Frac(0, 1) ELSE FracAdd(s[1], FracSum(Tail(s)))

\* the seed of the b-th batch of a run
BatchSeed(c, b) == (c.seed + b - 1) % (MaxTargetSeed + 1)

\* Pipeline A: the target tensor of micro-batch d, location by location:
\* channel 0 (positive mask) and channel 5 (centerness, in 1/CenterUnit)
FcosTargets(s, d) ==
    [i \in 1..NumLocations |->
        [pos |-> (s * (d + i)) % 2, center |-> (s * (i + 2 * d)) % (CenterUnit + 1)]]

\* Pipeline A: what the three loss kernels return for micro-batch d, location
\* by location (the focal loss summed over the classes)
FcosRawLosses(s, d) ==
    [i \in 1..NumLocations |->
        [iou |-> 1 + ((s + i + d) % 3), bce |-> 1 + ((s + i) % 2),
         focal |-> 1 + ((s + d) % 2)]]

\* Pipeline B: loc_masks.sum() of micro-batch d, level by level
RetinanetLocMaskSums(s, d) ==
    [l \in DOMAIN FPN_STRIDES |-> (s * (d + l)) % (MaxMaskSum + 1)]

\* Pipeline B: (loss * mask).sum() of micro-batch d, level by level
RetinanetRawLosses(s, d) ==
    [l \in DOMAIN FPN_STRIDES |->
        [loc |-> IF RetinanetLocMaskSums(s, d)[l] = 0 THEN 0 ELSE 1 + ((s + l) % 2),
         cls |-> 1 + ((s + d + l) % 2)]]

\* `num_pos = targets[:, 0].sum() + 1`
num_pos(targets) == SumSeq([i \in DOMAIN targets |-> targets[i].pos]) + 1

\* the IoU term weighted by the positive mask and divided by its sum
iou_loss_PositiveMask(raw, targets) ==
    [i \in DOMAIN targets |->
        Frac(raw[i].iou * targets[i].pos,
             SumSeq([j \in DOMAIN targets |-> targets[j].pos]))]

\* `iou_loss = IoULoss(..) * targets[:, 5:6] / (targets[:, 5].sum() + 1)`
iou_loss(raw, targets) ==
    [i \in DOMAIN targets |->
        Frac(raw[i].iou * targets[i].center,
             SumSeq([j \in DOMAIN targets |-> targets[j].center]) + CenterUnit)]

\* `loss_center = BCELoss(preds[:, 4], targets[:, 5]) * targets[:, 0] / num_pos`
loss_center(raw, targets) ==
    [i \in DOMAIN targets |-> Frac(raw[i].bce * targets[i].pos, num_pos(targets))]

\* `loss_cls = FocalLoss(.., logits=preds[:, 5:], targets=targets[:, 6:]) / num_pos`
loss_cls(raw, targets) ==
    [i \in DOMAIN targets |-> Frac(raw[i].focal, num_pos(targets))]

\* the three `.sum()` terms of loss_total for one micro-batch
FcosLosses(raw, targets) ==
    [iou |-> FracSum(iou_loss(raw, targets)),
     center |-> FracSum(loss_center(raw, targets)),
     cls |-> FracSum(loss_cls(raw, targets))]

\* the sum of the loc-mask sums of the levels, not divided
retinanet_num_pos_NoQuarter(mask_sums) ==
    FracSum([l \in DOMAIN mask_sums |-> Frac(mask_sums[l], 1)])

\* `num_pos = mx.nd.ElementWiseSum(*[x[2].sum() / 4 for x in targets])`
retinanet_num_pos(mask_sums) ==
    FracSum([l \in DOMAIN mask_sums |-> Frac(mask_sums[l], MaskPerAnchor)])

\* `sum([x.sum().asscalar() for x in num_pos_list])`
num_pos_per_batch_across_all_devices(num_pos_list) == FracSum(num_pos_list)

\* what one micro-batch appends to losses_loc and losses_cls: the
\* ElementWiseSum over the levels of (loss * mask).sum()
RetinanetLosses(raw) ==
    [loc |-> FracSum([l \in DOMAIN raw |-> Frac(raw[l].loc, 1)]),
     cls |-> FracSum([l \in DOMAIN raw |-> Frac(raw[l].cls, 1)])]

\* `losses_loc[i] = losses_loc[i] / num_pos_per_batch_across_all_devices`,
\* and the same for losses_cls
Normalise(losses, n) ==
    [d \in DOMAIN losses |->
        [loc |-> FracDiv(losses[d].loc, n), cls |-> FracDiv(losses[d].cls, n)]]

\* trainer.step(batch_size): one optimizer update whatever the argument
trainer_step(u, batch_size) == u + 1

\* zeroing that leaves the buffers as they are
zero_grad_Skip(grads) == grads

\* net.collect_params().zero_grad(): every buffer of every device
zero_grad(grads) == [d \in DOMAIN grads |-> "zero"]

\* a first record scope that also runs backward on what it recorded
B_FirstScope_Backward(b, d) ==
    <<[op |-> "forward", batch |-> b, dev |-> d, arg |-> 0],
      [op |-> "backward", batch |-> b, dev |-> d, arg |-> 0]>>

\* Pipeline B: `with ag.record(): fpn_predictions = net(data)`
B_FirstScope(b, d) == <<[op |-> "forward", batch |-> b, dev |-> d, arg |-> 0]>>

\* a micro-batch whose loss is never back-propagated
A_MicroBatchCalls_NoBackward(b, d) ==
    <<[op |-> "forward", batch |-> b, dev |-> d, arg |-> 0]>>

\* Pipeline A: the calls of one micro-batch inside `with ag.record()`; with
\* USE_FP16 the backward call is ag.backward(scaled_losses)
A_MicroBatchCalls(b, d) ==
    <<[op |-> "forward", batch |-> b, dev |-> d, arg |-> 0],
      [op |-> "backward", batch |-> b, dev |-> d, arg |-> 0]>>

\* len(data_list): with use_hvd the batch goes to ctx_list[0] alone
MicroBatches(c) == IF c.pipeline = "A" /\ c.use_hvd THEN 1 ELSE c.ndev

\* the argument of trainer.step
StepArgument(c) ==
    IF c.pipeline = "B" THEN 1 ELSE IF c.use_hvd THEN c.local_size ELSE c.ndev

ItConfigs ==
    { [pipeline |-> "A", ndev |-> n, use_hvd |-> FALSE, local_rank |-> 0, local_size |-> 1,
       batches |-> b, seed |-> s, start_update |-> u] :
        n \in 1..MaxDevices, b \in 1..MaxBatches, s \in 0..MaxTargetSeed, u \in ResumeUpdates }
    \cup
    { [pipeline |-> "A", ndev |-> 1, use_hvd |-> TRUE, local_rank |-> r, local_size |-> k,
       batches |-> b, seed |-> s, start_update |-> u] :
        r \in 0..MaxLocalRank, k \in 1..(MaxLocalRank + 1), b \in 1..MaxBatches,
        s \in 0..MaxTargetSeed, u \in ResumeUpdates }
    \cup
    { [pipeline |-> "B", ndev |-> n, use_hvd |-> FALSE, local_rank |-> 0, local_size |-> 1,
       batches |-> b, seed |-> s, start_update |-> u] :
        n \in 1..MaxDevices, b \in 1..MaxBatches, s \in 0..MaxTargetSeed, u \in ResumeUpdates }

NoCount == [list |-> <<>>, known |-> FALSE, total |-> Frac(0, 1)]

\* train_net has built the network and the trainer and reaches its dry run
ItInit ==
    /\ it_config \in {c \in ItConfigs : c.local_rank < c.local_size}
    /\ it_pc = IF it_config.pipeline = "A" THEN "a_dry" ELSE "b_dry"
    /\ it_dev = 1
    /\ it_batch = 0
    /\ it_trace = <<>>
    /\ it_grads = [d \in 1..it_config.ndev |-> "zero"]
    /\ it_losses = <<>>
    /\ it_num_pos = NoCount
    /\ it_num_update = it_config.start_update

ItIdle ==
    /\ it_config = [pipeline |-> "None"]
    /\ it_pc = "idle"
    /\ it_dev = 0
    /\ it_batch = 0
    /\ it_trace = <<>>
    /\ it_grads = <<>>
    /\ it_losses = <<>>
    /\ it_num_pos = NoCount
    /\ it_num_update = 0

\* after the last call of a batch: the next batch, or the end of the run
NextBatch ==
    /\ it_dev' = 1
    /\ it_losses' = <<>>
    /\ it_num_pos' = NoCount
    /\ IF it_batch < it_config.batches
       THEN /\ it_batch' = it_batch + 1
            /\ it_pc' = IF it_config.pipeline = "A" THEN "a_forward" ELSE "b_forward"
       ELSE /\ it_batch' = it_batch
            /\ it_pc' = "done"

\* Pipeline A: `for ctx in ctx_list: _ = net(mx.nd.random.randn(.., ctx=ctx))`
A_DryForward ==
    /\ it_pc = "a_dry"
    /\ it_trace' = Append(it_trace, [op |-> "forward", batch |-> 0, dev |-> it_dev, arg |-> 0])
    /\ IF it_dev < it_config.ndev
       THEN /\ it_dev' = it_dev + 1
            /\ UNCHANGED <<it_pc, it_batch, it_losses, it_num_pos>>
       ELSE NextBatch
    /\ UNCHANGED <<it_config, it_grads, it_num_update>>
    /\ UNCHANGED not_it_vars

\* Pipeline A: one micro-batch inside `with ag.record()`: the forward pass,
\* the three loss terms and the backward call
A_MicroBatch ==
    /\ it_pc = "a_forward"
    /\ it_trace' = it_trace \o A_MicroBatchCalls(it_batch, it_dev)
    /\ it_losses' = Append(it_losses,
            FcosLosses(FcosRawLosses(BatchSeed(it_config, it_batch), it_dev),
                       FcosTargets(BatchSeed(it_config, it_batch), it_dev)))
    /\ it_grads' = [it_grads EXCEPT ![it_dev] =
            IF \E i \in DOMAIN A_MicroBatchCalls(it_batch, it_dev) :
                    A_MicroBatchCalls(it_batch, it_dev)[i].op = "backward"
            THEN "batch" ELSE @]
    /\ it_dev' = it_dev + 1
    /\ it_pc' = IF it_dev < MicroBatches(it_config) THEN "a_forward" ELSE "a_step"
    /\ UNCHANGED <<it_config, it_batch, it_num_pos, it_num_update>>
    /\ UNCHANGED not_it_vars

\* Pipeline A: trainer.step(hvd.local_size()) or trainer.step(len(ctx_list))
A_Step ==
    /\ it_pc = "a_step"
    /\ it_num_update' = trainer_step(it_num_update, StepArgument(it_config))
    /\ it_trace' = Append(it_trace,
            [op |-> "step", batch |-> it_batch, dev |-> 0, arg |-> StepArgument(it_config)])
    /\ IF IsWriter(it_config)
       THEN /\ it_pc' = "a_metrics"
            /\ UNCHANGED <<it_dev, it_batch, it_losses, it_num_pos>>
       ELSE NextBatch
    /\ UNCHANGED <<it_config, it_grads>>
    /\ UNCHANGED not_it_vars

\* Pipeline A: `if not config.use_hvd or hvd.local_rank() == 0`: the metrics
A_UpdateMetrics ==
    /\ it_pc = "a_metrics"
    /\ it_trace' = Append(it_trace,
            [op |-> "update_metrics", batch |-> it_batch, dev |-> 0, arg |-> 0])
    /\ NextBatch
    /\ UNCHANGED <<it_config, it_grads, it_num_update>>
    /\ UNCHANGED not_it_vars

\* Pipeline B: the dry run of one device: forward and backward on random input
B_DryRun ==
    /\ it_pc = "b_dry"
    /\ it_trace' = it_trace \o
            <<[op |-> "forward", batch |-> 0, dev |-> it_dev, arg |-> 0],
              [op |-> "backward", batch |-> 0, dev |-> it_dev, arg |-> 0]>>
    /\ it_grads' = [it_grads EXCEPT ![it_dev] = "synthetic"]
    /\ it_pc' = "b_zero_grad"
    /\ UNCHANGED <<it_config, it_dev, it_batch, it_losses, it_num_pos, it_num_update>>
    /\ UNCHANGED not_it_vars

\* Pipeline B: net.collect_params().zero_grad(), the last call of the dry
\* run's loop body
B_ZeroGrad ==
    /\ it_pc = "b_zero_grad"
    /\ it_grads' = zero_grad(it_grads)
    /\ it_trace' = Append(it_trace, [op |-> "zero_grad", batch |-> 0, dev |-> it_dev, arg |-> 0])
    /\ IF it_dev < it_config.ndev
       THEN /\ it_dev' = it_dev + 1
            /\ it_pc' = "b_dry"
            /\ UNCHANGED <<it_batch, it_losses, it_num_pos>>
       ELSE NextBatch
    /\ UNCHANGED <<it_config, it_num_update>>
    /\ UNCHANGED not_it_vars

\* Pipeline B: one micro-batch: the forward pass in its record scope, the
\* targets and num_pos, the masked loss sums in a second record scope
B_MicroBatch ==
    /\ it_pc = "b_forward"
    /\ it_trace' = it_trace \o B_FirstScope(it_batch, it_dev)
    /\ it_num_pos' = [it_num_pos EXCEPT !.list = Append(@,
            retinanet_num_pos(RetinanetLocMaskSums(BatchSeed(it_config, it_batch), it_dev)))]
    /\ it_losses' = Append(it_losses,
            RetinanetLosses(RetinanetRawLosses(BatchSeed(it_config, it_batch), it_dev)))
    /\ it_grads' = [it_grads EXCEPT ![it_dev] =
            IF \E i \in DOMAIN B_FirstScope(it_batch, it_dev) :
                    B_FirstScope(it_batch, it_dev)[i].op = "backward"
            THEN "batch" ELSE @]
    /\ it_dev' = it_dev + 1
    /\ it_pc' = IF it_dev < MicroBatches(it_config) THEN "b_forward" ELSE "b_count"
    /\ UNCHANGED <<it_config, it_batch, it_num_update>>
    /\ UNCHANGED not_it_vars

\* Pipeline B: num_pos_per_batch_across_all_devices is computed
B_Count ==
    /\ it_pc = "b_count"
    /\ it_num_pos' = [it_num_pos EXCEPT !.known = TRUE,
            !.total = num_pos_per_batch_across_all_devices(it_num_pos.list)]
    /\ it_trace' = Append(it_trace, [op |-> "count", batch |-> it_batch, dev |-> 0, arg |-> 0])
    /\ it_pc' = "b_divide"
    /\ UNCHANGED <<it_config, it_dev, it_batch, it_grads, it_losses, it_num_update>>
    /\ UNCHANGED not_it_vars

\* Pipeline B: every loss sum is divided by the count, in a record scope
B_Divide ==
    /\ it_pc = "b_divide"
    /\ it_losses' = Normalise(it_losses, it_num_pos.total)
    /\ it_trace' = Append(it_trace, [op |-> "divide", batch |-> it_batch, dev |-> 0, arg |-> 0])
    /\ it_pc' = "b_backward"
    /\ UNCHANGED <<it_config, it_dev, it_batch, it_grads, it_num_pos, it_num_update>>
    /\ UNCHANGED not_it_vars

\* Pipeline B: ag.backward(losses_loc + losses_cls), one call for all devices
B_Backward ==
    /\ it_pc = "b_backward"
    /\ it_grads' = [d \in DOMAIN it_grads |-> "batch"]
    /\ it_trace' = Append(it_trace, [op |-> "backward", batch |-> it_batch, dev |-> 0, arg |-> 0])
    /\ it_pc' = "b_step"
    /\ UNCHANGED <<it_config, it_dev, it_batch, it_losses, it_num_pos, it_num_update>>
    /\ UNCHANGED not_it_vars

\* Pipeline B: trainer.step(1)
B_Step ==
    /\ it_pc = "b_step"
    /\ it_num_update' = trainer_step(it_num_update, StepArgument(it_config))
    /\ it_trace' = Append(it_trace,
            [op |-> "step", batch |-> it_batch, dev |-> 0, arg |-> StepArgument(it_config)])
    /\ it_pc' = "b_metrics"
    /\ UNCHANGED <<it_config, it_dev, it_batch, it_grads, it_losses, it_num_pos>>
    /\ UNCHANGED not_it_vars

\* Pipeline B: the metrics are updated after every step
B_UpdateMetrics ==
    /\ it_pc = "b_metrics"
    /\ it_trace' = Append(it_trace,
            [op |-> "update_metrics", batch |-> it_batch, dev |-> 0, arg |-> 0])
    /\ NextBatch
    /\ UNCHANGED <<it_config, it_grads, it_num_update>>
    /\ UNCHANGED not_it_vars

----------------------------------------------------------------------------
(* SplitDataset of train_fcos.py: what the process of each local rank      *)
(* reads from the dataset in one pass.                                     *)

\* len(da) ranges over 0..MaxDatasetLen
MaxDatasetLen == 7
\* hvd.local_size() ranges over 1..MaxLocalSize
MaxLocalSize == 3

\* a length rounded up instead of down
SplitDataset_len_Ceil(n, local_size) == (n + local_size - 1) \div local_size

\* SplitDataset.__len__: `len(self.da) // self.local_size`
SplitDataset_len(n, local_size) == n \div local_size

\* SplitDataset.__getitem__: the index `idx * self.local_size + self.locak_rank`
SplitDataset_getitem(idx, local_size, local_rank) == idx * local_size + local_rank

\* self.da[j] for a dataset of n items
DaGetItem(n, j) == IF j < n THEN [ok |-> TRUE, item |-> j] ELSE [ok |-> FALSE, item |-> -1]

\* one pass of the loader over a rank's SplitDataset: idx in range(len(self))
SplitEpoch(n, local_size, local_rank) ==
    [len |-> SplitDataset_len(n, local_size),
     reads |-> [idx \in 0..(SplitDataset_len(n, local_size) - 1) |->
                    DaGetItem(n, SplitDataset_getitem(idx, local_size, local_rank))]]

\* the processes of one host have built train_dataset of n items
SplitInit ==
    /\ split_call \in [n : 0..MaxDatasetLen, local_size : 1..MaxLocalSize]
    /\ split_result = [r \in {} |-> 0]

\* the process of one local rank wraps the dataset and reads a pass of it
SplitDatasetPass ==
    /\ split_call.n >= 0
    /\ \E r \in 0..(split_call.local_size - 1) :
        /\ r \notin DOMAIN split_result
        /\ split_result' = [q \in DOMAIN split_result \cup {r} |->
                IF q = r THEN SplitEpoch(split_call.n, split_call.local_size, r)
                ELSE split_result[q]]
    /\ UNCHANGED split_call
    /\ UNCHANGED not_split_vars

SplitIdle ==
    /\ split_call = [n |-> -1, local_size |-> 1]
    /\ split_result = [r \in {} |-> 0]

----------------------------------------------------------------------------
(* The target-generation adapters of both scripts, on arrays held by       *)
(* reference: gen_heap[ref] is the array a name bound to ref denotes.      *)

\* the caller's box array has 0..MaxGenBoxes rows
MaxGenBoxes == 2
\* class ids of the caller's boxes: 0..MaxClassId
MaxClassId == 2
\* the coordinates of a box are generated from a seed in 0..MaxCoordSeed
MaxCoordSeed == 1
\* an adapter is called up to MaxGenCalls times on the same box array
MaxGenCalls == 2

\* a row [x0, y0, x1, y1, class id]: the coordinates as one value
BoxRows == [coords : 0..MaxCoordSeed, cls : 0..MaxClassId]

BoxArrays == UNION {[1..n -> BoxRows] : n \in 0..MaxGenBoxes}

\* `bboxes = bboxes`: the same array under a second name
np_copy_Alias(heap, ref) == [heap |-> heap, ref |-> ref]

\* `bboxes.copy()`: a new array with the same rows
np_copy(heap, ref) == [heap |-> Append(heap, heap[ref]), ref |-> Len(heap) + 1]

\* `bboxes[:, 4] += 1`, in place
AddOneToClass(heap, ref) ==
    [heap EXCEPT ![ref] = [i \in DOMAIN heap[ref] |-> [heap[ref][i] EXCEPT !.cls = @ + 1]]]

\* `np.ones(shape=(max_bbox_number, 5)) * -1`: a new array
np_ones_minus(heap) ==
    [heap |-> Append(heap, [i \in 1..max_bbox_number |-> [coords |-> -1, cls |-> -1]]),
     ref |-> Len(heap) + 1]

\* `bboxes_padded[:len(bboxes), :5] = bboxes`, in place
AssignRows(heap, dst, src) ==
    [heap EXCEPT ![dst] = [i \in DOMAIN heap[dst] |->
        IF i <= Len(heap[src]) THEN heap[src][i] ELSE heap[dst][i]]]

\* FCOSTargetGenerator.__call__: what the kernel is given (bboxes.astype is a
\* new array) and the arrays left behind
FCOSTargetGenerator_call(heap, bboxes) ==
    LET copied == np_copy(heap, bboxes)
        added == AddOneToClass(copied.heap, copied.ref)
    IN  [heap |-> added, raised |-> "", handed |-> added[copied.ref]]

\* RetinaNetTargetGenerator.__call__ on the arrays alive: what is returned as
\* bboxes_padded and the arrays left behind
RetinaNetTargetGenerator_on(heap, bboxes) ==
    LET copied == np_copy(heap, bboxes)
    IN  IF Len(copied.heap[copied.ref]) <= max_bbox_number
        THEN LET padded == np_ones_minus(copied.heap)
                 assigned == AssignRows(padded.heap, padded.ref, copied.ref)
             IN  [heap |-> assigned, raised |-> "", handed |-> assigned[padded.ref]]
        ELSE [heap |-> copied.heap, raised |-> "AssertionError", handed |-> <<>>]

\* the dataset holds a box array (reference 1) that the adapter is called on
GenInit ==
    /\ gen_call \in [script : Scripts, bboxes : {1}, original : BoxArrays]
    /\ gen_heap = <<gen_call.original>>
    /\ gen_result = <<>>

\* train_fcos: the dataset calls target_generator(image, bboxes); the
\* adapter's own arrays are dropped when it returns
FcosTargetGeneratorCall ==
    /\ gen_call.script = "train_fcos"
    /\ Len(gen_result) < MaxGenCalls
    /\ LET r == FCOSTargetGenerator_call(gen_heap, gen_call.bboxes)
       IN  /\ gen_heap' = SubSeq(r.heap, 1, 1)
           /\ gen_result' = Append(gen_result, [raised |-> r.raised, handed |-> r.handed])
    /\ UNCHANGED gen_call
    /\ UNCHANGED not_gen_vars

\* train_retinanet: the dataset calls target_generator(image, bboxes)
RetinanetTargetGeneratorCall ==
    /\ gen_call.script = "train_retinanet"
    /\ Len(gen_result) < MaxGenCalls
    /\ LET r == RetinaNetTargetGenerator_on(gen_heap, gen_call.bboxes)
       IN  /\ gen_heap' = SubSeq(r.heap, 1, 1)
           /\ gen_result' = Append(gen_result, [raised |-> r.raised, handed |-> r.handed])
    /\ UNCHANGED gen_call
    /\ UNCHANGED not_gen_vars

GenIdle ==
    /\ gen_call = [script |-> "None", bboxes |-> 0, original |-> <<>>]
    /\ gen_heap = <<>>
    /\ gen_result = <<>>

----------------------------------------------------------------------------
(* Specifications: one per component, the other components idle.           *)

\* the target-generation adapter of Pipeline B
InitPad == PadInit /\ TrainIdle /\ NetIdle /\ LossIdle /\ HeadIdle /\ ShimIdle /\ CliIdle /\ DetIdle /\ RsIdle /\ ImgIdle /\ FrzIdle /\ ItIdle /\ SplitIdle /\ GenIdle

NextPad == PadCall

SpecPad == InitPad /\ [][NextPad]_vars

\* the backbone family
InitNet == NetInit /\ TrainIdle /\ PadIdle /\ LossIdle /\ HeadIdle /\ ShimIdle /\ CliIdle /\ DetIdle /\ RsIdle /\ ImgIdle /\ FrzIdle /\ ItIdle /\ SplitIdle /\ GenIdle

NextNet ==
    \/ GetResnext
    \/ NamedConstructor
    \/ BuildResNext
    \/ BuildDeformable

SpecNet == InitNet /\ [][NextNet]_vars

\* the loss kernels' shape inference
InitLoss == LossInit /\ TrainIdle /\ PadIdle /\ NetIdle /\ HeadIdle /\ ShimIdle /\ CliIdle /\ DetIdle /\ RsIdle /\ ImgIdle /\ FrzIdle /\ ItIdle /\ SplitIdle /\ GenIdle

NextLoss ==
    \/ BCEInferShape
    \/ L2InferShape

SpecLoss == InitLoss /\ [][NextLoss]_vars

\* the heads of Pipeline B
InitHead == HeadInit /\ TrainIdle /\ PadIdle /\ NetIdle /\ LossIdle /\ ShimIdle /\ CliIdle /\ DetIdle /\ RsIdle /\ ImgIdle /\ FrzIdle /\ ItIdle /\ SplitIdle /\ GenIdle

NextHead ==
    \/ TrainNetBuildsHead
    \/ DemoNetBuildsHead

SpecHead == InitHead /\ [][NextHead]_vars

\* the shim
InitShim == ShimInit /\ TrainIdle /\ PadIdle /\ NetIdle /\ LossIdle /\ HeadIdle /\ CliIdle /\ DetIdle /\ RsIdle /\ ImgIdle /\ FrzIdle /\ ItIdle /\ SplitIdle /\ GenIdle

NextShim == ShimConv2d

SpecShim == InitShim /\ [][NextShim]_vars

\* the command line
InitCli == CliInit /\ TrainIdle /\ PadIdle /\ NetIdle /\ LossIdle /\ HeadIdle /\ ShimIdle /\ DetIdle /\ RsIdle /\ ImgIdle /\ FrzIdle /\ ItIdle /\ SplitIdle /\ GenIdle

NextCli ==
    \/ MainLoadMobulaOps
    \/ MainParseArgs
    \/ MainSetNVCC
    \/ MainDemoNet
    \/ MainTrainNet
    \/ MainReturn

SpecCli == InitCli /\ [][NextCli]_vars

\* the training loops
Init == TrainInit /\ PadIdle /\ NetIdle /\ LossIdle /\ HeadIdle /\ ShimIdle /\ CliIdle /\ DetIdle /\ RsIdle /\ ImgIdle /\ FrzIdle /\ ItIdle /\ SplitIdle /\ GenIdle

Next == TrainNext

Spec == Init /\ [][Next]_vars

\* Pipeline A inference
InitDet == DetInit /\ TrainIdle /\ PadIdle /\ NetIdle /\ LossIdle /\ HeadIdle /\ ShimIdle /\ CliIdle /\ RsIdle /\ ImgIdle /\ FrzIdle /\ ItIdle /\ SplitIdle /\ GenIdle

NextDet == FcosInferenceOneImage

SpecDet == InitDet /\ [][NextDet]_vars

\* the scaling step of inference
InitRs == RsInit /\ TrainIdle /\ PadIdle /\ NetIdle /\ LossIdle /\ HeadIdle /\ ShimIdle /\ CliIdle /\ DetIdle /\ ImgIdle /\ FrzIdle /\ ItIdle /\ SplitIdle /\ GenIdle

NextRs ==
    \/ FcosInferenceResize
    \/ RetinanetInferenceResize

SpecRs == InitRs /\ [][NextRs]_vars

\* the padding step of Pipeline B inference
InitImg == ImgInit /\ TrainIdle /\ PadIdle /\ NetIdle /\ LossIdle /\ HeadIdle /\ ShimIdle /\ CliIdle /\ DetIdle /\ RsIdle /\ FrzIdle /\ ItIdle /\ SplitIdle /\ GenIdle

NextImg == RetinanetInferencePad

SpecImg == InitImg /\ [][NextImg]_vars

\* the freezing passes
InitFrz == FrzInit /\ TrainIdle /\ PadIdle /\ NetIdle /\ LossIdle /\ HeadIdle /\ ShimIdle /\ CliIdle /\ DetIdle /\ RsIdle /\ ImgIdle /\ ItIdle /\ SplitIdle /\ GenIdle

NextFrz ==
    \/ FcosFreeze
    \/ RetinanetFreeze

SpecFrz == InitFrz /\ [][NextFrz]_vars

----------------------------------------------------------------------------
InitIt == ItInit /\ TrainIdle /\ PadIdle /\ NetIdle /\ LossIdle /\ HeadIdle /\ ShimIdle /\ CliIdle /\ DetIdle /\ RsIdle /\ ImgIdle /\ FrzIdle /\ SplitIdle /\ GenIdle

NextIt ==
    \/ A_DryForward
    \/ A_MicroBatch
    \/ A_Step
    \/ A_UpdateMetrics
    \/ B_DryRun
    \/ B_ZeroGrad
    \/ B_MicroBatch
    \/ B_Count
    \/ B_Divide
    \/ B_Backward
    \/ B_Step
    \/ B_UpdateMetrics

SpecIt == InitIt /\ [][NextIt]_vars

----------------------------------------------------------------------------
InitSplit == SplitInit /\ TrainIdle /\ PadIdle /\ NetIdle /\ LossIdle /\ HeadIdle /\ ShimIdle /\ CliIdle /\ DetIdle /\ RsIdle /\ ImgIdle /\ FrzIdle /\ ItIdle /\ GenIdle

NextSplit == SplitDatasetPass

SpecSplit == InitSplit /\ [][NextSplit]_vars

----------------------------------------------------------------------------
InitGen == GenInit /\ TrainIdle /\ PadIdle /\ NetIdle /\ LossIdle /\ HeadIdle /\ ShimIdle /\ CliIdle /\ DetIdle /\ RsIdle /\ ImgIdle /\ FrzIdle /\ ItIdle /\ SplitIdle

NextGen ==
    \/ FcosTargetGeneratorCall
    \/ RetinanetTargetGeneratorCall

SpecGen == InitGen /\ [][NextGen]_vars

----------------------------------------------------------------------------
(* Properties of the training loops.                                       *)

\* the files of one checkpoint: the weights and the optimizer state
Checkpoint(path) == {ParamsFile(path), StatesFile(path)}

\* the update counts at which a file was written
SavedUpdates == {saved[i].update : i \in DOMAIN saved}

\* the iteration of the last step has nothing left to write
IterationSettled ==
    \/ pc \in {"while", "for_epoch", "done"}
    \/ pc = "batch" /\ nbatch < config.loader_len

\* C3: in both loops, in a process that writes files, what is written after the
\* optimizer update with counter value u is the checkpoint {epoch}-{u}.params if
\* u is a multiple of 5000, the checkpoint {epoch}.params if the update was the
\* last batch of the pass, and nothing else.
C3_CheckpointIff ==
    (IsWriter(config) /\ last_step # NoStep) =>
        LET u == last_step.update
            e == last_step.epoch
            expected ==
                (IF u % 5000 = 0 THEN Checkpoint(<<e, u>>) ELSE {})
                \cup (IF last_step.last THEN Checkpoint(<<e>>) ELSE {})
        IN  /\ since \subseteq expected
            /\ IterationSettled => since = expected

\* a periodic checkpoint written in the middle of a pass, and a pass whose last
\* update wrote both checkpoints
C3_Witness ==
    /\ IsWriter(config)
    /\ last_step # NoStep
    /\ IterationSettled
    /\ last_step.update % 5000 = 0
    /\ ~last_step.last
    /\ since = Checkpoint(<<last_step.epoch, last_step.update>>)

\* C4: Pipeline A's loop, started with update counter 0 on a loader of 100
\* batches per pass and end_epoch = 2, writes checkpoints exactly at the update
\* counts 100 and 200 and makes no third pass over the loader.
C4_ScheduleCheckpoints ==
    (/\ config.pipeline = "A"
     /\ IsWriter(config)
     /\ start_update = 0
     /\ config.loader_len = ScheduleLen
     /\ config.end_epoch = 2) =>
        /\ SavedUpdates \subseteq {ScheduleLen, 2 * ScheduleLen}
        /\ passes <= 2
        /\ pc = "done" => SavedUpdates = {ScheduleLen, 2 * ScheduleLen}

----------------------------------------------------------------------------
(* Properties of the target-generation adapter.                            *)

\* C1: with max_bbox_number = 200, a call with n <= 200 boxes returns a box
\* array of exactly 200 rows of 5 columns whose rows 1..n are the input boxes
\* in their order and whose rows n+1..200 are -1 in all 5 columns; a call with
\* n > 200 boxes fails with an assertion and returns nothing.
C1_PaddedBoxes ==
    pad_result.raised # "no call" =>
        LET n == Len(pad_bboxes) IN
        IF n <= 200
        THEN /\ pad_result.raised = ""
             /\ LET out == pad_result.outputs[2] IN
                /\ DOMAIN out = 1..200
                /\ \A i \in 1..200 : DOMAIN out[i] = 1..5
                /\ \A i \in 1..n : out[i] = pad_bboxes[i]
                /\ \A i \in (n + 1)..200 : \A j \in 1..5 : out[i][j] = -1
        ELSE /\ pad_result.raised = "AssertionError"
             /\ pad_result.outputs = <<>>

\* a call with exactly 200 boxes has returned
C1_Witness ==
    /\ pad_result.raised # "no call"
    /\ Len(pad_bboxes) = 200
    /\ pad_result.raised = ""

----------------------------------------------------------------------------
(* Properties of the backbone family.                                      *)

\* the stages of a built network: what follows the 4 layers of the stem
Stages(net) == SubSeq(net.features, 5, Len(net.features))

\* 2^i
RECURSIVE Pow2(_)
Pow2(i) == IF i = 0 THEN 1 ELSE 2 * Pow2(i - 1)

Called == net_call.num_layers # -1

\* C2: get_resnext fails with an assertion, no network built, for every
\* num_layers other than 50 and 101, and otherwise builds the network from the
\* per-stage block counts [3,4,6,3] for 50 and [3,4,23,3] for 101.
C2_DepthCheck ==
    Called =>
        IF net_call.num_layers \notin {50, 101}
        THEN /\ net_result.raised = "AssertionError"
             /\ net_result.net.features = <<>>
        ELSE /\ net_result.raised = ""
             /\ Len(Stages(net_result.net)) = 4
             /\ LET want == IF net_call.num_layers = 50
                            THEN <<3, 4, 6, 3>> ELSE <<3, 4, 23, 3>> IN
                \A k \in 1..4 : Len(Stages(net_result.net)[k].blocks) = want[k]

\* the depth-101 network has been built
C2_Witness ==
    /\ Called
    /\ net_call.num_layers = 101
    /\ net_result.raised = ""

\* the depth-50 network with cardinality 32 and bottleneck_width 4 is built
IsResnext50_32x4d ==
    /\ Called
    /\ net_call.num_layers = 50
    /\ net_call.cardinality = 32
    /\ net_call.bottleneck_width = 4
    /\ net_result.raised = ""

\* C5 as claimed: in the depth-50 network built with cardinality 32 and
\* bottleneck_width 4 every block of every one of the 4 stages has D = 4,
\* group_width = 128 and channels * 4 output channels.
C5_Original ==
    IsResnext50_32x4d =>
        \A k \in 1..4 :
            LET blocks == Stages(net_result.net)[k].blocks IN
            \A b \in 1..Len(blocks) :
                /\ blocks[b].D = 4
                /\ blocks[b].group_width = 128
                /\ blocks[b].body[7].channels = blocks[b].channels * 4

\* C5 as amended: in that network every block of stage i (0-based) is built
\* with channels = 64 * 2^i and has D = 4 * 2^i, group_width = 128 * 2^i and
\* channels * 4 = 256 * 2^i output channels; D = 4 and group_width = 128 hold
\* in stage 0 only.
C5_StageWidths ==
    IsResnext50_32x4d =>
        \A k \in 1..4 :
            LET blocks == Stages(net_result.net)[k].blocks IN
            \A b \in 1..Len(blocks) :
                /\ blocks[b].channels = 64 * Pow2(k - 1)
                /\ blocks[b].D = 4 * Pow2(k - 1)
                /\ blocks[b].group_width = 128 * Pow2(k - 1)
                /\ blocks[b].body[7].channels = 256 * Pow2(k - 1)
                /\ blocks[b].body[7].channels = blocks[b].channels * 4

\* the depth-50 32x4d network has been built and its last stage has 3 blocks
C5_Witness ==
    /\ IsResnext50_32x4d
    /\ Len(Stages(net_result.net)[4].blocks) = 3

\* C8: every DeformabelConv2D unit, constructed on its own with any num_filter,
\* kernel_size, strides, padding, dilation and num_groups or inside a block of a
\* network, has an offset branch of exactly 72 output channels.
C8_OffsetChannels ==
    /\ dcn_unit.op = "DeformabelConv2D" => dcn_unit.conv_offset.channels = 72
    /\ (Called /\ net_result.raised = "") =>
        \A k \in 1..Len(Stages(net_result.net)) :
            LET blocks == Stages(net_result.net)[k].blocks IN
            \A b \in 1..Len(blocks) :
                blocks[b].body[4].op = "DeformabelConv2D" =>
                    blocks[b].body[4].conv_offset.channels = 72

\* a unit with a 1x1 kernel and 128 filters has been constructed
C8_Witness ==
    /\ dcn_unit.op = "DeformabelConv2D"
    /\ dcn_unit.kernel = <<1, 1>>
    /\ dcn_unit.num_filter = 128

----------------------------------------------------------------------------
(* Properties of the loss kernels' shape inference.                        *)

\* C6: for the BCELoss and the L2Loss kernel alike, infer_shape fails when the
\* prediction shape and the target shape differ, and for equal shapes returns
\* the input shapes unchanged and a single output shape equal to the input shape.
C6_InferShape ==
    loss_call.kernel \in {"BCELoss", "L2Loss"} =>
        LET y == loss_call.in_shape[1]
            target == loss_call.in_shape[2]
        IN  IF y # target
            THEN /\ loss_result.raised = "AssertionError"
                 /\ loss_result.returned = <<>>
            ELSE /\ loss_result.raised = ""
                 /\ Len(loss_result.returned) = 2
                 /\ loss_result.returned[1] = <<y, target>>
                 /\ Len(loss_result.returned[2]) = 1
                 /\ loss_result.returned[2][1] = y

\* L2Loss was asked about two different shapes of the same rank, and failed
C6_Witness ==
    /\ loss_call.kernel = "L2Loss"
    /\ Len(loss_call.in_shape[1]) = Len(loss_call.in_shape[2])
    /\ loss_call.in_shape[1] # loss_call.in_shape[2]
    /\ loss_result.raised = "AssertionError"

----------------------------------------------------------------------------
(* Properties of Pipeline B's heads.                                       *)

\* C7: with the default 3 scales and 3 ratios, train_net and demo_net both
\* compute num_anchors = 9, so the head built for training and the head built
\* for inference have the same channel counts: (num_classes - 1) * 9 for
\* classification and 4 * 9 for regression.
C7_NumAnchors ==
    /\ \A head \in {train_head, demo_head} :
        head.num_anchors # -1 =>
            /\ head.num_anchors = 9
            /\ head.feat_cls_channels = (head_cfg.NUM_CLASSES - 1) * 9
            /\ head.feat_reg_loc_channels = 36
    /\ (train_head.num_anchors # -1 /\ demo_head.num_anchors # -1) =>
        /\ train_head.num_anchors = demo_head.num_anchors
        /\ train_head.feat_cls_channels = demo_head.feat_cls_channels
        /\ train_head.feat_reg_loc_channels = demo_head.feat_reg_loc_channels

\* both heads have been built for the default 81 classes
C7_Witness ==
    /\ head_cfg.NUM_CLASSES = 81
    /\ train_head.num_anchors # -1
    /\ demo_head.num_anchors # -1

----------------------------------------------------------------------------
(* Properties of the shim.                                                 *)

\* C9: nn.Conv2d fails for every padding_mode other than 'zeros' without
\* constructing a layer, and for 'zeros' returns a convolution whose channels,
\* kernel size, stride, padding, dilation, groups and bias flag are the
\* arguments passed.
C9_Conv2d ==
    shim_call.padding_mode # "no call" =>
        IF shim_call.padding_mode # "zeros"
        THEN /\ shim_result.raised = "AssertionError"
             /\ shim_result.layer.op = "None"
        ELSE /\ shim_result.raised = ""
             /\ shim_result.layer.op = "Conv2D"
             /\ shim_result.layer.channels = shim_call.out_channels
             /\ shim_result.layer.in_channels = shim_call.in_channels
             /\ shim_result.layer.kernel_size = shim_call.kernel_size
             /\ shim_result.layer.strides = shim_call.stride
             /\ shim_result.layer.padding = shim_call.padding
             /\ shim_result.layer.dilation = shim_call.dilation
             /\ shim_result.layer.groups = shim_call.groups
             /\ shim_result.layer.use_bias = shim_call.bias

\* a grouped, strided convolution from 3 to 256 channels has been returned
C9_Witness ==
    /\ shim_call.padding_mode = "zeros"
    /\ shim_call.in_channels = 3
    /\ shim_call.out_channels = 256
    /\ shim_call.stride = 2
    /\ shim_call.groups = 32
    /\ shim_result.layer.op = "Conv2D"

----------------------------------------------------------------------------
(* Properties of the command line.                                         *)

CliEnded == cli_pc \in {"exit", "error_exit"}

Ran(f) == \E i \in DOMAIN cli_ran : cli_ran[i] = f

\* the options each script's parser defines, once --demo is given or not
Defined(script, demo) ==
    {"--dataset-type", "--num-classes", "--dataset-root", "--gpus", "--demo"}
    \cup (IF script = "train_retinanet" THEN {"--nvcc", "--im-per-gpu"} ELSE {})
    \cup (IF demo THEN {"--demo-params", "--viz"} ELSE {})

\* --demo without --demo-params: a parser error exit, nothing started
C10_DemoNeedsParams ==
    ("--demo" \in cli_argv /\ "--demo-params" \notin cli_argv) =>
        /\ cli_ran = <<>>
        /\ cli_pc \in {"main", "error_exit"}

\* C10 as claimed: --demo without --demo-params ends in a parser error exit
\* before demo_net or train_net starts; with --demo and --demo-params demo_net
\* runs and train_net never runs; without --demo train_net runs and demo_net
\* never runs.
C10_Original ==
    /\ C10_DemoNeedsParams
    /\ ("--demo" \in cli_argv /\ "--demo-params" \in cli_argv) =>
        /\ ~Ran("train_net")
        /\ CliEnded => (cli_pc = "exit" /\ Ran("demo_net"))
    /\ "--demo" \notin cli_argv =>
        /\ ~Ran("demo_net")
        /\ CliEnded => (cli_pc = "exit" /\ Ran("train_net"))

\* C10 as amended: as claimed, where "runs" is claimed only of a command line
\* whose options the script's parser all defines; --demo-params and --viz are
\* defined only when --demo is given, and any other command line ends in a
\* parser error exit with neither entry point started.
C10_DemoDispatch ==
    /\ C10_DemoNeedsParams
    /\ ("--demo" \in cli_argv /\ "--demo-params" \in cli_argv) =>
        /\ ~Ran("train_net")
        /\ (CliEnded /\ cli_argv \subseteq Defined(cli_script, TRUE)) =>
            (cli_pc = "exit" /\ cli_ran = <<"demo_net">>)
    /\ "--demo" \notin cli_argv =>
        /\ ~Ran("demo_net")
        /\ (CliEnded /\ cli_argv \subseteq Defined(cli_script, FALSE)) =>
            (cli_pc = "exit" /\ cli_ran = <<"train_net">>)
    /\ (CliEnded /\ ~(cli_argv \subseteq Defined(cli_script, "--demo" \in cli_argv))) =>
        (cli_pc = "error_exit" /\ cli_ran = <<>>)

\* --demo without --demo-params has ended in the parser's error exit
C10_Witness ==
    /\ "--demo" \in cli_argv
    /\ "--demo-params" \notin cli_argv
    /\ cli_argv \subseteq Defined(cli_script, TRUE)
    /\ cli_pc = "error_exit"

----------------------------------------------------------------------------
(* Properties of Pipeline A inference.                                     *)

\* the rows of the returned list that come from one level
FromLevel(l) == SelectSeq(det_result.returned, LAMBDA r : r.level = l)

\* C11: every detection inference_one_image of Pipeline A returns has a score
\* strictly greater than 0.01 and a class id equal to the decoded class id plus
\* 1, and the returned list has at most 200 entries per pyramid level, at most
\* 1000 for the 5 levels.
C11_Detections ==
    det_result.called =>
        /\ \A i \in 1..Len(det_result.returned) :
            LET r == det_result.returned[i]
            IN  /\ r.score > 10
                /\ r.level \in 1..5
                /\ r.idx \in 1..det_call.counts[r.level]
                /\ r.cls = RoiRow(r.level, r.idx, det_call.seed, det_call.dense).cls + 1
        /\ \A l \in 1..5 : Len(FromLevel(l)) <= 200
        /\ Len(det_result.returned) <= 1000

\* every level decoded more than 200 rois that all pass the score filter and
\* box_nms, and 200 of each level were returned
C11_Witness ==
    /\ det_result.called
    /\ det_call.dense
    /\ \A l \in 1..5 : det_call.counts[l] > 200 /\ Len(FromLevel(l)) = 200
    /\ Len(det_result.returned) = 1000

----------------------------------------------------------------------------
(* Properties of the scaling step of inference.                            *)

ShortSide(shape) == IF shape[1] <= shape[2] THEN shape[1] ELSE shape[2]
LongSide(shape) == IF shape[1] <= shape[2] THEN shape[2] ELSE shape[1]

\* the image is so elongated that the long-side limit decides the scale
LongLimited(shape) == 800 * LongSide(shape) > 1333 * ShortSide(shape)

\* the scaled side that was the short (long) side of the image read
ScaledShort == IF rs_call.shape[1] <= rs_call.shape[2] THEN rs_result.resized[1] ELSE rs_result.resized[2]
ScaledLong == IF rs_call.shape[1] <= rs_call.shape[2] THEN rs_result.resized[2] ELSE rs_result.resized[1]

\* fscale is min(800 / short_side, 1333 / long_side): it is one of the two
\* ratios and exceeds neither
IsMinOfRatios ==
    LET f == rs_result.fscale
        s == ShortSide(rs_call.shape)
        l == LongSide(rs_call.shape)
    IN  /\ f.num * s <= 800 * f.den
        /\ f.num * l <= 1333 * f.den
        /\ f.num * s = 800 * f.den \/ f.num * l = 1333 * f.den

\* side * fscale rounded to the nearest integer (either neighbour at a tie)
IsScaled(scaled, side) ==
    LET f == rs_result.fscale
    IN  /\ 2 * scaled * f.den <= 2 * side * f.num + f.den
        /\ 2 * scaled * f.den >= 2 * side * f.num - f.den

\* C12 as claimed: in both pipelines inference scales both axes by
\* min(800 / short_side, 1333 / long_side), and after scaling the short side
\* equals 800 and the long side does not exceed 1333.
C12_Original ==
    rs_result.raised # "no call" =>
        /\ IsMinOfRatios
        /\ rs_result.raised = ""
        /\ IsScaled(rs_result.resized[1], rs_call.shape[1])
        /\ IsScaled(rs_result.resized[2], rs_call.shape[2])
        /\ ScaledShort = 800
        /\ ScaledLong <= 1333

\* C12 as amended: both axes are scaled by min(800 / short_side,
\* 1333 / long_side) and rounded; the short side never exceeds 800 and the long
\* side never exceeds 1333; the short side equals 800 when
\* 800 * long_side <= 1333 * short_side, otherwise the long side equals 1333
\* and the short side is below 800 or rounds up to it; and the resize fails
\* exactly when a side rounds to 0.
C12_ScaledShape ==
    rs_result.raised # "no call" =>
        /\ IsMinOfRatios
        /\ rs_result.raised \in {"", "cv2.error"}
        /\ rs_result.raised = "" =>
            /\ IsScaled(rs_result.resized[1], rs_call.shape[1])
            /\ IsScaled(rs_result.resized[2], rs_call.shape[2])
            /\ ScaledShort \in 1..800
            /\ ScaledLong \in 1..1333
            /\ IF LongLimited(rs_call.shape) THEN ScaledLong = 1333 ELSE ScaledShort = 800
        /\ rs_result.raised = "cv2.error" <=>
            2 * ShortSide(rs_call.shape) * rs_result.fscale.num <= rs_result.fscale.den

\* a 1333 x 2880 image has been scaled by the long-side ratio
C12_Witness ==
    /\ rs_call.shape = <<1333, 2880>>
    /\ rs_result.raised = ""
    /\ rs_result.resized[2] = 1333
    /\ rs_result.resized[1] < 800

----------------------------------------------------------------------------
(* Properties of the padding step of Pipeline B inference.                 *)

\* m is the smallest multiple of 32 that is >= x
SmallestMultiple(m, x) == m % 32 = 0 /\ m >= x /\ m - 32 < x

\* C13: the padded input of Pipeline B inference has height and width equal to
\* the smallest multiples of 32 that are >= the resized height and width
\* (unchanged for a multiple of 32), the resized pixels occupy its top-left
\* region unchanged, and every other pixel is zero.
C13_PaddedImage ==
    img_padded.shape # <<0, 0>> =>
        LET h == img_resized.shape[1]
            w == img_resized.shape[2]
        IN  /\ SmallestMultiple(img_padded.shape[1], h)
            /\ SmallestMultiple(img_padded.shape[2], w)
            /\ h % 32 = 0 => img_padded.shape[1] = h
            /\ w % 32 = 0 => img_padded.shape[2] = w
            /\ DOMAIN img_padded.px = (1..img_padded.shape[1]) \X (1..img_padded.shape[2])
            /\ \A p \in DOMAIN img_padded.px :
                img_padded.px[p] = IF p[1] <= h /\ p[2] <= w THEN img_resized.px[p] ELSE 0

\* a 32 x 33 image has been padded to 32 x 64, nonzero pixels kept
C13_Witness ==
    /\ img_resized.shape = <<32, 33>>
    /\ img_padded.shape = <<32, 64>>
    /\ img_padded.px[<<32, 33>>] # 0
    /\ img_padded.px[<<32, 34>>] = 0

----------------------------------------------------------------------------
(* Properties of the named constructors.                                   *)

NamedCall == net_call.num_layers # -1 /\ net_call.via # "get_resnext"

\* C14: each of the six named constructors calls get_resnext with its fixed
\* (depth, cardinality, bottleneck_width) triple - (50,32,4), (101,32,4),
\* (101,64,4) - and with use_se true exactly for the se_ variants, also when the
\* caller passes a different use_se keyword.
C14_NamedConstructors ==
    NamedCall =>
        /\ <<net_call.num_layers, net_call.cardinality, net_call.bottleneck_width>> =
            CASE net_call.via \in {"resnext50_32x4d", "se_resnext50_32x4d"} -> <<50, 32, 4>>
              [] net_call.via \in {"resnext101_32x4d", "se_resnext101_32x4d"} -> <<101, 32, 4>>
              [] net_call.via \in {"resnext101_64x4d", "se_resnext101_64x4d"} -> <<101, 64, 4>>
        /\ net_call.use_se =
            (net_call.via \in {"se_resnext50_32x4d", "se_resnext101_32x4d", "se_resnext101_64x4d"})
        /\ net_result.raised = ""
        /\ net_result.net.cardinality = net_call.cardinality
        /\ net_result.net.bottleneck_width = net_call.bottleneck_width

\* resnext101_64x4d was called with use_se=True and built a network without it
C14_Witness ==
    /\ NamedCall
    /\ net_call.via = "resnext101_64x4d"
    /\ "use_se" \in net_call.kwargs.given
    /\ net_call.kwargs.use_se
    /\ ~net_call.use_se
    /\ net_result.raised = ""

----------------------------------------------------------------------------
(* Properties of the checkpoint files.                                     *)

\* the files on disk
Files == {saved[i].file : i \in DOMAIN saved}

\* C15: at every checkpoint of both loops the weights file is written first and
\* the optimizer-state file (same path, suffix -trainer.states) second; so in
\* every state a crash can leave behind, an optimizer-state file exists only if
\* the weights file of its path was written, while a weights file can exist
\* without its optimizer-state file.
C15_WeightsFirst ==
    /\ \A i \in DOMAIN saved :
        IF saved[i].file.suffix = "-trainer.states"
        THEN /\ i > 1
             /\ saved[i - 1].file = [path |-> saved[i].file.path, suffix |-> ""]
             /\ saved[i - 1].update = saved[i].update
        ELSE /\ saved[i].file.suffix = ""
             /\ i < Len(saved) =>
                 saved[i + 1].file = [path |-> saved[i].file.path, suffix |-> "-trainer.states"]
             /\ i = Len(saved) => pc \in {"save_states", "epoch_states"}
    /\ \A f \in Files :
        f.suffix = "-trainer.states" => [path |-> f.path, suffix |-> ""] \in Files

\* after a complete checkpoint, a crash now leaves a weights file without its
\* optimizer-state file
C15_Witness ==
    /\ Len(saved) >= 3
    /\ saved[Len(saved)].file.suffix = ""
    /\ [path |-> saved[Len(saved)].file.path, suffix |-> "-trainer.states"] \notin Files
    /\ pc = "save_states"

----------------------------------------------------------------------------
(* Properties of the blocks of a built network.                            *)

Built == net_call.via # "None" /\ net_result.raised = ""

\* the last normalization layer of a block's body
LastNorm(block) == block.body[Len(block.body)]

\* C16: in a bottleneck Block the gamma of the last normalization layer of the
\* body is zero-initialized when last_gamma is true, and has the normalization
\* layer's default initializer when last_gamma is false.
C16_LastGamma ==
    Built =>
        \A k \in 1..Len(Stages(net_result.net)) :
            LET blocks == Stages(net_result.net)[k].blocks IN
            \A b \in 1..Len(blocks) :
                /\ LastNorm(blocks[b]).op = "norm"
                /\ LastNorm(blocks[b]).gamma_initializer =
                    IF net_call.last_gamma THEN "zeros" ELSE "ones"


\* the layers spec a built network was made from
LayersOf(call) == IF call.via = "ResNext" THEN call.layers ELSE resnext_spec[call.num_layers]

\* the 3x3 convolution of a block's body, and its stride
Conv3x3(block) == block.body[4]
StrideOf(block) ==
    IF Conv3x3(block).op = "Conv2D" THEN Conv3x3(block).strides ELSE Conv3x3(block).stride[1]

\* the blocks of stage i (0-based) are built as a stage of `count` blocks is:
\* channel argument 64 * 2^i; the first block has the downsample path and the
\* stage stride, every later block stride 1 and no downsample path; the
\* deformable 3x3 convolution if and only if i is 1, 2 or 3
StageBuilt(blocks, i, count) ==
    /\ Len(blocks) = count
    /\ \A b \in 1..Len(blocks) :
        /\ blocks[b].channels = 64 * Pow2(i)
        /\ StrideOf(blocks[b]) = IF b = 1 /\ i > 0 THEN 2 ELSE 1
        /\ IF b = 1
           THEN /\ Len(blocks[b].downsample) = 2
                /\ blocks[b].downsample[1].strides = IF i > 0 THEN 2 ELSE 1
           ELSE blocks[b].downsample = <<>>
        /\ (Conv3x3(blocks[b]).op = "DeformabelConv2D") <=> (i \in {1, 2, 3})
        /\ Conv3x3(blocks[b]).op \in {"DeformabelConv2D", "Conv2D"}

----------------------------------------------------------------------------
(* Properties of the freezing passes.                                      *)

FcosFrozen == frz_call.script = "train_fcos" /\ frz_result.done
RetinanetFrozen == frz_call.script = "train_retinanet" /\ frz_result.done

\* the entries of FIXED_PARAMS, none for None
FixedEntries ==
    {frz_call.FIXED_PARAMS.list[k] : k \in DOMAIN frz_call.FIXED_PARAMS.list}

\* the name p contains f: p is some head, then f, then some tail
NameContains(p, f) ==
    \E a \in 0..Len(p), b \in 0..Len(p) :
        /\ a + Len(f) + b = Len(p)
        /\ \A i \in 1..Len(f) : p[a + i] = f[i]

\* C18: after Pipeline A's freezing pass a parameter is outside the set handed
\* to the optimizer, with grad_req null, if and only if its name contains at
\* least one entry of FIXED_PARAMS and does not contain "group"; every other
\* parameter is in the trained set with its grad_req unchanged; with
\* FIXED_PARAMS empty or None every parameter is trained.
C18_FcosFreeze ==
    FcosFrozen =>
        /\ \A p \in ParamNames :
            IF /\ \E f \in FixedEntries : NameContains(p, f)
               /\ ~NameContains(p, <<"group">>)
            THEN /\ p \notin frz_result.params_to_train
                 /\ frz_result.grad_req[p] = "null"
            ELSE /\ p \in frz_result.params_to_train
                 /\ frz_result.grad_req[p] = frz_call.params_all[p]
        /\ FixedEntries = {} => frz_result.params_to_train = ParamNames

\* with "layers2" fixed, the batch-norm gamma of layers2 is frozen and the
\* group-norm gamma of layers2 is trained
C18_Witness ==
    /\ FcosFrozen
    /\ frz_call.FIXED_PARAMS.list = << <<"layers2">> >>
    /\ frz_call.params_all[<<"resnetv1b", "layers2", "batchnorm0", "gamma">>] = "write"
    /\ frz_result.grad_req[<<"resnetv1b", "layers2", "batchnorm0", "gamma">>] = "null"
    /\ <<"resnetv1b", "layers2", "batchnorm0", "gamma">> \notin frz_result.params_to_train
    /\ <<"resnetv1b", "layers2", "group", "norm0", "gamma">> \in frz_result.params_to_train

\* the parameters the pass logged as ignored for a reason
LoggedAs(why) ==
    {frz_result.log[i].p : i \in {j \in DOMAIN frz_result.log : frz_result.log[j].why = why}}

\* C19: in Pipeline B's freezing pass a parameter whose grad_req is already
\* null is excluded from the set handed to the optimizer unless its name
\* contains "running"; a parameter with a null grad_req whose name contains
\* "running" and that matches no fixed pattern is not excluded by this rule
\* (the rule leaves its `ignore` unset and logs nothing about it).
C19_AlreadyNull ==
    RetinanetFrozen =>
        \A p \in ParamNames :
            frz_call.params_all[p] = "null" =>
                IF ~NameContains(p, <<"running">>)
                THEN /\ p \notin frz_result.params_to_train
                     /\ p \in frz_result.ignore
                     /\ p \in LoggedAs("grad_req_null")
                ELSE /\ p \notin LoggedAs("grad_req_null")
                     /\ p \notin LoggedAs("matches") => p \notin frz_result.ignore

\* a running mean with grad_req null that no pattern matches, next to a weight
\* with grad_req null that the rule excludes
C19_Witness ==
    /\ RetinanetFrozen
    /\ frz_call.params_all[<<"resnetv1b", "layers1", "batchnorm0", "running", "mean">>] = "null"
    /\ <<"resnetv1b", "layers1", "batchnorm0", "running", "mean">> \notin frz_result.ignore
    /\ frz_call.params_all[<<"head", "conv0", "weight">>] = "null"
    /\ <<"head", "conv0", "weight">> \in frz_result.ignore
    /\ frz_call.FIXED_PARAMS.list # <<>>


\* the orderings of a list
Orderings(list) ==
    {[k \in DOMAIN list |-> list[perm[k]]] :
        perm \in {f \in [DOMAIN list -> DOMAIN list] : \A a, b \in DOMAIN list : f[a] = f[b] => a = b}}

\* whether the loop body of train_retinanet.py trains p when it makes the
\* pattern check first and the already-null check, on the grad_req the pattern
\* check left, second
TrainedPatternFirst(p, grad_req, fixed) ==
    LET st0 == Undecided(p, grad_req)
        st1 == IF fixed.is_none THEN st0 ELSE retinanet_for_f(st0, fixed.list, 1)
        st2 == IF AlreadyNull(p, st1.grad_req) THEN Ignored(st1, "grad_req_null", <<>>) ELSE st1
    IN  ~st2.ignore /\ st2.grad_req # "null"

\* C20: after Pipeline B's freezing pass every parameter is either in the
\* trained set with a non-null grad_req or outside it with a null grad_req;
\* and the trained set is the same for every ordering of the FIXED_PARAMS list
\* and whether the already-null check or the pattern check is made first.
C20_TrainedSet ==
    RetinanetFrozen =>
        /\ \A p \in ParamNames :
            \/ p \in frz_result.params_to_train /\ frz_result.grad_req[p] # "null"
            \/ p \notin frz_result.params_to_train /\ frz_result.grad_req[p] = "null"
        /\ \A list \in Orderings(frz_call.FIXED_PARAMS.list) :
            LET fixed == [frz_call.FIXED_PARAMS EXCEPT !.list = list]
            IN  /\ freezing_pass("train_retinanet", frz_call.params_all, fixed).params_to_train
                    = frz_result.params_to_train
                /\ {p \in ParamNames : TrainedPatternFirst(p, frz_call.params_all[p], fixed)}
                    = frz_result.params_to_train

\* two different patterns, one of which matches a parameter that trains
\* otherwise, and a running mean with grad_req null that no pattern matches
C20_Witness ==
    /\ RetinanetFrozen
    /\ frz_call.FIXED_PARAMS.list = << <<".*", "layers1", ".*">>, <<".*", "gamma">> >>
    /\ frz_call.params_all[<<"resnetv1b", "layers1", "conv0", "weight">>] = "write"
    /\ frz_call.params_all[<<"resnetv1b", "layers1", "batchnorm0", "running", "mean">>] = "null"
    /\ frz_result.params_to_train # {}
    /\ frz_result.params_to_train # ParamNames

----------------------------------------------------------------------------
(* Properties of the losses of one iteration.                              *)

\* the targets and the kernels' values of micro-batch d of the current batch
ItTargets(d) == FcosTargets(BatchSeed(it_config, it_batch), d)
ItRaw(d) == FcosRawLosses(BatchSeed(it_config, it_batch), d)

\* targets[:, ch].sum(), and (kernel value * targets[:, ch]).sum()
ChannelSum(t, ch) == SumSeq([i \in DOMAIN t |-> t[i][ch]])
WeightedSum(r, kernel, t, ch) == SumSeq([i \in DOMAIN t |-> r[i][kernel] * t[i][ch]])
KernelSum(r, kernel) == SumSeq([i \in DOMAIN r |-> r[i][kernel]])

\* the centerness and classification terms: the first weighted by the
\* positive mask, both divided by num_pos = sum(positive mask) + 1
C21_CenterAndCls(d) ==
    /\ FracEq(it_losses[d].center,
              Frac(WeightedSum(ItRaw(d), "bce", ItTargets(d), "pos"),
                   ChannelSum(ItTargets(d), "pos") + 1))
    /\ FracEq(it_losses[d].cls,
              Frac(KernelSum(ItRaw(d), "focal"), ChannelSum(ItTargets(d), "pos") + 1))

\* C21 as claimed: in Pipeline A's loss of a micro-batch the IoU term is
\* weighted per location by the positive mask (target channel 0) and divided
\* by the sum of that mask, and the centerness and classification terms are
\* divided by num_pos = sum(positive mask) + 1.
C21_Original ==
    it_config.pipeline = "A" =>
        \A d \in DOMAIN it_losses :
            /\ ChannelSum(ItTargets(d), "pos") > 0 =>
                FracEq(it_losses[d].iou,
                       Frac(WeightedSum(ItRaw(d), "iou", ItTargets(d), "pos"),
                            ChannelSum(ItTargets(d), "pos")))
            /\ C21_CenterAndCls(d)

\* C21 as amended: the IoU term is weighted per location by the centerness
\* target (target channel 5) and divided by the sum of that channel plus 1;
\* the centerness term is weighted by the positive mask (channel 0) and, like
\* the classification term, divided by num_pos = sum(positive mask) + 1.
C21_LossTerms ==
    it_config.pipeline = "A" =>
        \A d \in DOMAIN it_losses :
            /\ it_losses[d].iou.den > 0
            /\ FracEq(it_losses[d].iou,
                      Frac(WeightedSum(ItRaw(d), "iou", ItTargets(d), "center"),
                           ChannelSum(ItTargets(d), "center") + CenterUnit))
            /\ C21_CenterAndCls(d)

\* a micro-batch with positive locations whose centerness is below 1 has its
\* loss computed, and the IoU term is not the positive-mask average
C21_Witness ==
    /\ it_config.pipeline = "A"
    /\ \E d \in DOMAIN it_losses :
        /\ ChannelSum(ItTargets(d), "pos") > 0
        /\ \E i \in DOMAIN ItTargets(d) :
            ItTargets(d)[i].pos = 1 /\ ItTargets(d)[i].center \in 1..(CenterUnit - 1)
        /\ it_losses[d].iou.num > 0
        /\ ~FracEq(it_losses[d].iou,
                   Frac(WeightedSum(ItRaw(d), "iou", ItTargets(d), "pos"),
                        ChannelSum(ItTargets(d), "pos")))

\* C22 as claimed: in both training loops every divisor a loss is normalised
\* by is strictly positive for every batch, a batch whose masks are all zero
\* included: Pipeline A's num_pos and centerness sum plus 1, Pipeline B's
\* batch-wide positive-anchor count.
C22_PositiveDivisors ==
    /\ it_config.pipeline = "A" =>
        \A d \in DOMAIN it_losses :
            /\ it_losses[d].iou.den > 0
            /\ it_losses[d].center.den > 0
            /\ it_losses[d].cls.den > 0
    /\ it_config.pipeline = "B" =>
        /\ it_num_pos.known => it_num_pos.total.num > 0
        /\ \A d \in DOMAIN it_losses : it_losses[d].loc.den > 0 /\ it_losses[d].cls.den > 0

----------------------------------------------------------------------------
(* Properties of the order of the calls of one iteration.                  *)

\* the positions of the calls of one kind that batch b made
Calls(op, b) == {i \in DOMAIN it_trace : it_trace[i].op = op /\ it_trace[i].batch = b}

\* the batches whose optimizer step has been made
Stepped == {b \in 1..MaxBatches + 1 : Calls("step", b) # {}}

----------------------------------------------------------------------------
(* Properties of Pipeline B's normalisation.                               *)

\* the loc-mask sums of all devices and levels of the current batch, added up
TotalLocMask ==
    SumSeq([d \in 1..it_config.ndev |->
        SumSeq(RetinanetLocMaskSums(BatchSeed(it_config, it_batch), d))])

\* the sums over the levels of one micro-batch's masked losses, not yet divided
RawSum(d, kind) ==
    SumSeq([l \in DOMAIN FPN_STRIDES |->
        RetinanetRawLosses(BatchSeed(it_config, it_batch), d)[l][kind]])

\* the losses of the batch have been divided
Divided == it_pc \in {"b_backward", "b_step", "b_metrics"}

\* C24: in Pipeline B the loc and cls loss sums of every device are divided
\* by one and the same number, the sum over all devices and all 5 levels of
\* (loc-mask sum / 4), which is computed only after the forward pass of every
\* device; the optimizer is then stepped exactly once, with batch-size
\* argument 1.
C24_OneDivisor ==
    it_config.pipeline = "B" =>
        /\ Len(FPN_STRIDES) = 5
        /\ it_num_pos.known =>
            /\ FracEq(it_num_pos.total, Frac(TotalLocMask, MaskPerAnchor))
            /\ it_num_pos.total.den > 0
            /\ Len(it_num_pos.list) = it_config.ndev
        /\ \A b \in 1..MaxBatches + 1 : \A c \in Calls("count", b) :
            /\ Cardinality({f \in Calls("forward", b) : f < c}) = it_config.ndev
            /\ \A d \in 1..it_config.ndev :
                \E f \in Calls("forward", b) : f < c /\ it_trace[f].dev = d
        /\ Divided =>
            \A d \in 1..it_config.ndev :
                /\ it_losses[d].loc.num * TotalLocMask
                    = RawSum(d, "loc") * MaskPerAnchor * it_losses[d].loc.den
                /\ it_losses[d].cls.num * TotalLocMask
                    = RawSum(d, "cls") * MaskPerAnchor * it_losses[d].cls.den
                /\ TotalLocMask > 0 =>
                    it_losses[d].loc.den > 0 /\ it_losses[d].cls.den > 0
        /\ \A b \in Stepped :
            /\ Cardinality(Calls("step", b)) = 1
            /\ \A s \in Calls("step", b) : it_trace[s].arg = 1

\* two devices with different positive-anchor counts have had their losses
\* divided, and the optimizer has been stepped
C24_Witness ==
    /\ it_config.pipeline = "B"
    /\ it_config.ndev = 2
    /\ it_pc = "b_metrics"
    /\ it_num_pos.list[1] # it_num_pos.list[2]
    /\ TotalLocMask > 0
    /\ it_losses[1].loc.num > 0

----------------------------------------------------------------------------
(* Properties of the backward calls and the optimizer step.                *)

\* C25: in Pipeline A backward is called exactly once per device micro-batch,
\* all backward calls of a batch precede the optimizer step, the optimizer is
\* stepped once per data batch, and the update counter grows by exactly one
\* per batch.
C25_BackwardThenStep ==
    it_config.pipeline = "A" =>
        /\ \A b \in Stepped :
            /\ Cardinality(Calls("step", b)) = 1
            /\ Cardinality(Calls("backward", b)) = MicroBatches(it_config)
            /\ \A d \in 1..MicroBatches(it_config) :
                Cardinality({i \in Calls("backward", b) : it_trace[i].dev = d}) = 1
            /\ \A s \in Calls("step", b) : \A i \in Calls("backward", b) : i < s
        /\ \A b \in 1..MaxBatches + 1 : \A i \in Calls("backward", b) :
            \E f \in Calls("forward", b) : f < i /\ it_trace[f].dev = it_trace[i].dev
        /\ Calls("backward", 0) = {}
        /\ it_num_update = it_config.start_update + Cardinality(Stepped)
        /\ it_pc = "done" => Stepped = 1..it_config.batches

\* Pipeline A has stepped the optimizer for its second batch, each batch
\* spread over two devices and the step given the argument 2
C25_Witness ==
    /\ it_config.pipeline = "A"
    /\ it_config.ndev = 2
    /\ 2 \in Stepped
    /\ it_num_update = it_config.start_update + 2
    /\ \E s \in Calls("step", 2) : it_trace[s].arg = 2

\* C26: before the first real batch of Pipeline B exactly one synthetic
\* forward and backward dry run is made per configured device, each followed
\* by zeroing all gradients, and no optimizer step is taken: when the first
\* real batch starts the update counter is at its initial value and all
\* gradients are zero.
C26_DryRun ==
    it_config.pipeline = "B" =>
        /\ Calls("step", 0) = {}
        /\ \A i \in Calls("backward", 0) :
            /\ i > 1 /\ it_trace[i - 1].op = "forward" /\ it_trace[i - 1].batch = 0
            /\ it_trace[i - 1].dev = it_trace[i].dev
            /\ (i < Len(it_trace) \/ it_batch > 0) =>
                /\ i < Len(it_trace)
                /\ it_trace[i + 1].op = "zero_grad"
        /\ it_batch > 0 =>
            /\ \A d \in 1..it_config.ndev :
                /\ Cardinality({i \in Calls("forward", 0) : it_trace[i].dev = d}) = 1
                /\ Cardinality({i \in Calls("backward", 0) : it_trace[i].dev = d}) = 1
            /\ Cardinality(Calls("forward", 0)) = it_config.ndev
            /\ Cardinality(Calls("backward", 0)) = it_config.ndev
            /\ Cardinality(Calls("zero_grad", 0)) = it_config.ndev
            /\ \A i \in Calls("forward", 0) \cup Calls("backward", 0) \cup Calls("zero_grad", 0) :
                \A j \in DOMAIN it_trace : it_trace[j].batch > 0 => i < j
        /\ (it_batch = 1 /\ it_dev = 1 /\ it_pc = "b_forward") =>
            /\ it_num_update = it_config.start_update
            /\ \A d \in DOMAIN it_grads : it_grads[d] = "zero"
            /\ Len(it_trace) = 3 * it_config.ndev

\* Pipeline B starts its first real batch after the dry run of two devices
C26_Witness ==
    /\ it_config.pipeline = "B"
    /\ it_config.ndev = 2
    /\ it_batch = 1 /\ it_dev = 1 /\ it_pc = "b_forward"
    /\ Cardinality(Calls("backward", 0)) = 2

----------------------------------------------------------------------------
(* Properties of the processes of Pipeline A's multi-process mode.         *)

\* batches drawn from the loader since the loop was entered
BatchesDrawn == IF passes = 0 THEN 0 ELSE (passes - 1) * config.loader_len + nbatch

\* C27: in Pipeline A's multi-process mode only the process with local rank
\* 0 writes checkpoint and optimizer-state files and updates the metrics; a
\* process with a nonzero local rank never writes a file (so two processes of
\* one host, whose local ranks differ, never write the same path), while
\* every process makes one optimizer step for every batch it draws.
C27_RankZeroWrites ==
    (config.pipeline = "A" /\ config.use_hvd) =>
        /\ config.local_rank # 0 =>
            /\ saved = <<>>
            /\ since = {}
            /\ ~last_step.metrics
            /\ pc \notin {"save_params", "save_states", "epoch_params", "epoch_states"}
        /\ (config.local_rank = 0 /\ last_step # NoStep) => last_step.metrics
        /\ (config.local_rank = 0 /\ last_step # NoStep /\ IterationSettled) =>
            /\ IsSaveUpdate(last_step.update) =>
                \E i \in DOMAIN saved : saved[i].update = last_step.update
            /\ last_step.last => \E i \in DOMAIN saved : saved[i].update = last_step.update
        /\ config.loader_len > 0 => num_update = start_update + BatchesDrawn

\* a process of local rank 1 has finished a pass in which its update counter
\* crossed a multiple of 5000, and has written nothing
C27_Witness ==
    /\ config.pipeline = "A"
    /\ config.use_hvd
    /\ config.local_rank = 1
    /\ pc = "while"
    /\ last_step.last
    /\ start_update < SaveInterval
    /\ num_update > SaveInterval
    /\ saved = <<>>

----------------------------------------------------------------------------
(* Properties of SplitDataset.                                             *)

\* the items of the dataset a rank has read
ItemsRead(r) == {split_result[r].reads[idx].item : idx \in DOMAIN split_result[r].reads}

\* C28: for every dataset length n and local_size k >= 1, SplitDataset gives
\* every rank r in 0..k-1 a shard of the same length floor(n/k), every index
\* it reads (idx*k + r for idx < floor(n/k)) is below n, the shards of two
\* different ranks share no item, and at most k-1 trailing items belong to no
\* shard.
C28_Shards ==
    LET n == split_call.n
        k == split_call.local_size
    IN  /\ \A r \in DOMAIN split_result :
            /\ split_result[r].len * k <= n
            /\ n < (split_result[r].len + 1) * k
            /\ \A idx \in DOMAIN split_result[r].reads :
                /\ split_result[r].reads[idx].ok
                /\ split_result[r].reads[idx].item = idx * k + r
                /\ split_result[r].reads[idx].item < n
            /\ Cardinality(ItemsRead(r)) = split_result[r].len
        /\ \A r, q \in DOMAIN split_result :
            /\ split_result[r].len = split_result[q].len
            /\ r # q => ItemsRead(r) \cap ItemsRead(q) = {}
        /\ DOMAIN split_result = 0..(k - 1) =>
            LET unread == (0..(n - 1)) \ UNION {ItemsRead(r) : r \in 0..(k - 1)}
            IN  /\ Cardinality(unread) <= k - 1
                /\ \A j \in unread : \A r \in 0..(k - 1) : \A i \in ItemsRead(r) : i < j

\* three ranks have read a dataset of 7 items: two each, the last item unread
C28_Witness ==
    /\ split_call.n = 7
    /\ split_call.local_size = 3
    /\ DOMAIN split_result = 0..2
    /\ \A r \in 0..2 : split_result[r].len = 2
    /\ 6 \notin UNION {ItemsRead(r) : r \in 0..2}

----------------------------------------------------------------------------
(* Properties of the target-generation adapters.                           *)

\* C29: both target-generation adapters leave the caller's box array
\* unchanged: FCOSTargetGenerator adds 1 to the class-id column of a copy
\* only, so that every call on the same boxes hands class id + 1, never + 2,
\* to the kernel, and RetinaNetTargetGenerator writes only into its own
\* padded array.
C29_CallerUnchanged ==
    gen_call.script \in Scripts =>
        /\ gen_heap[gen_call.bboxes] = gen_call.original
        /\ \A k \in DOMAIN gen_result :
            /\ gen_result[k].raised = ""
            /\ gen_call.script = "train_fcos" =>
                /\ Len(gen_result[k].handed) = Len(gen_call.original)
                /\ \A i \in DOMAIN gen_call.original :
                    /\ gen_result[k].handed[i].cls = gen_call.original[i].cls + 1
                    /\ gen_result[k].handed[i].coords = gen_call.original[i].coords
            /\ gen_call.script = "train_retinanet" =>
                /\ Len(gen_result[k].handed) = max_bbox_number
                /\ \A i \in DOMAIN gen_result[k].handed :
                    gen_result[k].handed[i] =
                        IF i <= Len(gen_call.original) THEN gen_call.original[i]
                        ELSE [coords |-> -1, cls |-> -1]

\* FCOSTargetGenerator has been called twice on the same two boxes
C29_Witness ==
    /\ gen_call.script = "train_fcos"
    /\ Len(gen_call.original) = 2
    /\ Len(gen_result) = 2
    /\ gen_result[2].handed[1].cls = gen_call.original[1].cls + 1
    /\ gen_heap[gen_call.bboxes] = gen_call.original

----------------------------------------------------------------------------
(* Properties of the kernel loader's configuration.                        *)

\* C30 as claimed: in the anchor-based script the native-compiler path
\* given by --nvcc is already set in the kernel loader's configuration at the
\* moment load_mobula_ops loads the custom kernels: the override is applied
\* before the load, not after it.
C30_NvccBeforeLoad ==
    cli_script = "train_retinanet" =>
        \A i \in DOMAIN cli_mobula.loaded :
            cli_mobula.loaded[i].NVCC = args_nvcc(cli_argv)

====
